---------------------------- MODULE Spec2Model ----------------------------
(***************************************************************************)
(* A model of wasm-bindgen-ts-decl: the pipeline that turns the            *)
(* declarations of one TypeScript declaration file into wasm-bindgen       *)
(* extern items.  One source unit is lowered (decl.rs, func.rs, pat.rs,    *)
(* ty.rs), composed and de-duplicated (module.rs, util.rs                  *)
(* ModuleBindingsCleaner), cleaned (util.rs BindingsCleaner) and legalized *)
(* (util.rs WasmAbify over ty.rs wasm_abi_set), in the order of main.rs.   *)
(*                                                                         *)
(* Identifiers are sequences of one-character strings, so that             *)
(* sanitize_sym and format!("{ident}_{counter}") are computed character by *)
(* character.  A syn::Type is a record [k, n, a]: its kind, its name and   *)
(* its component types.  A swc TsType is a record [k, n, a, tp].           *)
(***************************************************************************)
EXTENDS Integers, Sequences, FiniteSets, TLC

VARIABLES
    unit,        \* module.body: the statements of the source unit (read-only)
    pc,          \* the pass main() runs next
    uses,        \* what imports_to_uses returns
    lowered,     \* foreign_items when the loop of module_as_binding ends
    mods,        \* the extern blocks of the unit's namespaces, inner blocks first
    diagnostics, \* the lines the lowering has written with eprintln!
    resolved,    \* foreign_items after the ModuleBindingsCleaner pass
    cleaned,     \* module_items after the BindingsCleaner pass
    pubs,        \* CollectPubs.0
    legal        \* module_items after the WasmAbify pass

vars == <<unit, pc, uses, lowered, mods, diagnostics, resolved, cleaned, pubs, legal>>

-----------------------------------------------------------------------------
(* Sequences *)

Range(s) == {s[i] : i \in 1..Len(s)}

RECURSIVE Flatten(_)
Flatten(ss) == IF ss = <<>> THEN <<>> ELSE Head(ss) \o Flatten(Tail(ss))

SeqsUpTo(S, n) == UNION {[1..m -> S] : m \in 0..n}

-----------------------------------------------------------------------------
(* Characters and identifiers *)

UpperChars ==
    <<"A","B","C","D","E","F","G","H","I","J","K","L","M",
      "N","O","P","Q","R","S","T","U","V","W","X","Y","Z">>

LowerChars ==
    <<"a","b","c","d","e","f","g","h","i","j","k","l","m",
      "n","o","p","q","r","s","t","u","v","w","x","y","z">>

DigitChars == <<"0","1","2","3","4","5","6","7","8","9">>

is_ascii_uppercase(c) == c \in Range(UpperChars)

is_ascii_alphabetic(c) == c \in Range(UpperChars) \cup Range(LowerChars)

is_ascii_digit(c) == c \in Range(DigitChars)

to_ascii_lowercase(c) ==
    IF is_ascii_uppercase(c)
    THEN LowerChars[CHOOSE i \in 1..Len(UpperChars) : UpperChars[i] = c]
    ELSE c

\* The decimal digits of a natural number, as format!("{}") prints it.
RECURSIVE to_string(_)
to_string(n) ==
    IF n < 10 THEN <<DigitChars[n + 1]>>
    ELSE to_string(n \div 10) \o <<DigitChars[(n % 10) + 1]>>

\* The words parse_str::<Ident> refuses, which sanitize_sym retries as r#word.
RustKeywords ==
    { <<"t","y","p","e">>, <<"f","n">>, <<"i","n">>, <<"a","s">>,
      <<"f","o","r">>, <<"u","s","e">>, <<"m","o","d">>, <<"r","e","f">> }

PathKeywords == { <<"s","e","l","f">>, <<"s","u","p","e","r">>, <<"c","r","a","t","e">> }

sanitize_sym(sym) ==
    IF sym \in PathKeywords THEN sym \o <<"_","r","s">>
    ELSE
      LET all_upper == \A i \in 1..Len(sym) :
                          ~is_ascii_alphabetic(sym[i]) \/ is_ascii_uppercase(sym[i])
          prev_cap(i) == i > 1 /\ (is_ascii_uppercase(sym[i-1]) \/ is_ascii_digit(sym[i-1]))
          next_upper(i) == i = Len(sym) \/ is_ascii_uppercase(sym[i+1])
          sanitized_sym ==
              [i \in 1..Len(sym) |->
                  IF ~all_upper /\ prev_cap(i) /\ next_upper(i)
                  THEN to_ascii_lowercase(sym[i]) ELSE sym[i]]
      IN  IF sanitized_sym \in RustKeywords
          THEN <<"r","#">> \o sanitized_sym ELSE sanitized_sym

-----------------------------------------------------------------------------
(* syn::Type *)

Ty(k, n, a) == [k |-> k, n |-> n, a |-> a]

\* ::wasm_bindgen::JsValue
js_value == Ty("JsValue", <<>>, <<>>)

\* ::core::primitive::<n>
Prim(n) == Ty("Prim", <<n>>, <<>>)

\* ::std::string::String
StringTy == Ty("String", <<>>, <<>>)

\* a path of one segment without arguments
Named(ident) == Ty("Named", ident, <<>>)

\* ::std::option::Option<t>
OptionTy(t) == Ty("Option", <<>>, <<t>>)

\* ::std::boxed::Box<[t]>
BoxSlice(t) == Ty("Box", <<>>, <<t>>)

\* &t
Ref(t) == Ty("Ref", <<>>, <<t>>)

\* (t)
Paren(t) == Ty("Paren", <<>>, <<t>>)

\* (t1, ..., tn), n # 1; () is the unit type
TupleTy(ts) == Ty("Tuple", <<>>, ts)

\* dyn Fn(t1, ..., tn)
DynFn(ts) == Ty("DynFn", <<>>, ts)

\* the type Self
SelfTy == Named(<<"S","e","l","f">>)

\* ReturnType::Default, and the absent type of an item that has none
NoTy == Ty("None", <<>>, <<>>)

\* parse_quote!((#types)): no element is the unit type, one element without a
\* trailing comma parses as a parenthesized type, more make a tuple.
ParenthesizedTokens(ts) == IF Len(ts) = 1 THEN Paren(ts[1]) ELSE TupleTy(ts)

\* a path of several segments without arguments; n holds its segments
PathTy(segments) == Ty("Path", segments, <<>>)

\* Type::Path
IsTypePath(t) == t.k \in {"JsValue", "Prim", "String", "Named", "Path", "Option", "Box"}

\* &dyn Fn(..): Type::Reference whose elem is Type::TraitObject
IsRefTraitObject(t) == t.k = "Ref" /\ t.a[1].k = "DynFn"

-----------------------------------------------------------------------------
(* swc TsType *)

TsT(k, n, a, tp) == [k |-> k, n |-> n, a |-> a, tp |-> tp]

\* no type annotation (Option::None)
NoAnn == TsT("NoAnn", <<>>, <<>>, <<>>)

TsKeyword(kind) == TsT("TsKeywordType", <<kind>>, <<>>, <<>>)

\* a type reference to a bare identifier; args = <<>> is type_params: None
TsRef(sym, args) == TsT("TsTypeRef", sym, args, <<>>)

\* (p1: a1, ...) => r with type parameters tp; the return type is not read
TsFn(params, tp) == TsT("TsFnType", <<>>, params, tp)

TsArray(t) == TsT("TsArrayType", <<>>, <<t>>, <<>>)

TsOptional(t) == TsT("TsOptionalType", <<>>, <<t>>, <<>>)

TsUnion(ts) == TsT("TsUnionType", <<>>, ts, <<>>)

TsIntersection(ts) == TsT("TsIntersectionType", <<>>, ts, <<>>)

TsParen(t) == TsT("TsParenthesizedType", <<>>, <<t>>, <<>>)

TsTuple(ts) == TsT("TsTupleType", <<>>, ts, <<>>)

TsThis == TsT("TsThisType", <<>>, <<>>, <<>>)

\* import(arg).qualifier; tp holds arg, and n = <<>> is an import type without
\* a qualifier that is an identifier
TsImport(arg, qualifier) == TsT("TsImportType", qualifier, <<>>, <<arg>>)

\* a reference by the qualified name left[1]. .. .left[n].right
TsQualified(left, right) == TsT("TsQualifiedName", right, <<>>, left)

\* str::starts_with('.')
starts_with_dot(value) == value # <<>> /\ value[1] = "."

\* the kinds ts_type_to_type answers with JsValue without reading them
TsOpaqueKinds ==
    {"TsTypeQuery", "TsTypeLit", "TsLitType", "TsIndexedAccessType", "TsInferType"}

\* the kinds ts_type_to_type stops at with todo!()
TsTodoKinds ==
    {"TsRestType", "TsTypePredicate", "TsConditionalType", "TsTypeOperator",
     "TsMappedType", "TsConstructorType"}

TsJsValueKeywords == {"unknown", "any", "null", "undefined", "never", "object"}

TsTodoKeywords == {"bigint", "symbol", "intrinsic"}

IsTsKeyword(t, kinds) == t.k = "TsKeywordType" /\ t.n[1] \in kinds

ArrayIdent == <<"A","r","r","a","y">>

-----------------------------------------------------------------------------
(* util.rs: ByeByeGenerics *)

\* ByeByeGenerics::new: the sanitized names of the type parameters
ByeByeGenerics_new(type_params) ==
    [i \in 1..Len(type_params) |-> sanitize_sym(type_params[i])]

\* ByeByeGenerics::join
ByeByeGenerics_join(self, other) == self \o other

\* visit_type_path_mut without its closing walk over the path's segments
ByeByeGenerics_visit_type_unwalked(gen, t) ==
    IF t.k = "Named" /\ t.n \in Range(gen) THEN js_value ELSE t

\* ByeByeGenerics::visit_type_path_mut under the default visit_type_mut: a path of
\* one segment without arguments that names a generic becomes JsValue; every
\* other type is walked into.
RECURSIVE ByeByeGenerics_visit_type(_, _)
ByeByeGenerics_visit_type(gen, t) ==
    IF t.k = "Named"
    THEN IF t.n \in Range(gen) THEN js_value ELSE t
    ELSE [t EXCEPT !.a = [i \in 1..Len(t.a) |-> ByeByeGenerics_visit_type(gen, t.a[i])]]

-----------------------------------------------------------------------------
(* util.rs: import_prefix_to_idents, import_path_to_type_path_prefix *)

\* str::split on one character: the pieces of s between the separators
RECURSIVE Split(_, _)
Split(s, sep) ==
    LET hits == {i \in 1..Len(s) : s[i] = sep}
        first == CHOOSE i \in hits : \A j \in hits : i <= j
    IN  IF hits = {} THEN <<s>>
        ELSE <<SubSeq(s, 1, first - 1)>> \o Split(SubSeq(s, first + 1, Len(s)), sep)

\* str::strip_suffix(..).unwrap_or(s)
strip_suffix(s, suffix) ==
    IF /\ Len(s) >= Len(suffix)
       /\ SubSeq(s, Len(s) - Len(suffix) + 1, Len(s)) = suffix
    THEN SubSeq(s, 1, Len(s) - Len(suffix))
    ELSE s

SuperIdent == <<"s","u","p","e","r">>

SelfIdent == <<"s","e","l","f">>

DefaultIdentifier == <<"d","e","f","a","u","l","t">>

Dot == <<".">>

DotDot == <<".", ".">>

DotJs == <<".", "j", "s">>

\* format!("{}Mod", seg.strip_suffix(".js").unwrap_or(seg))
ModSegment(seg) == strip_suffix(seg, DotJs) \o <<"M","o","d">>

\* whether parse_str::<Ident> takes s: letters, digits and _, no digit in front
IsIdentifier(s) ==
    /\ s # <<>>
    /\ s # <<"_">>
    /\ ~is_ascii_digit(s[1])
    /\ \A i \in 1..Len(s) : is_ascii_alphabetic(s[i]) \/ is_ascii_digit(s[i]) \/ s[i] = "_"
    /\ s \notin RustKeywords

\* import_prefix_segments with a flag that every `..` leaves as it finds it
RECURSIVE import_prefix_segments_unflagged(_, _, _)
import_prefix_segments_unflagged(segs, i, first_dot_dot) ==
    IF i > Len(segs) THEN <<>>
    ELSE CASE segs[i] = Dot ->
                <<SuperIdent>> \o import_prefix_segments_unflagged(segs, i + 1, first_dot_dot)
           [] segs[i] = DotDot ->
                (IF first_dot_dot THEN <<SuperIdent, SuperIdent>> ELSE <<SuperIdent>>)
                \o import_prefix_segments_unflagged(segs, i + 1, first_dot_dot)
           [] OTHER ->
                <<ModSegment(segs[i])>>
                \o import_prefix_segments_unflagged(segs, i + 1, first_dot_dot)

\* the loop of import_prefix_to_idents over the segments from the i-th on
RECURSIVE import_prefix_segments(_, _, _)
import_prefix_segments(segs, i, first_dot_dot) ==
    IF i > Len(segs) THEN <<>>
    ELSE CASE segs[i] = Dot ->
                <<SuperIdent>> \o import_prefix_segments(segs, i + 1, first_dot_dot)
           [] segs[i] = DotDot ->
                (IF first_dot_dot THEN <<SuperIdent, SuperIdent>> ELSE <<SuperIdent>>)
                \o import_prefix_segments(segs, i + 1, FALSE)
           [] OTHER ->
                <<ModSegment(segs[i])>> \o import_prefix_segments(segs, i + 1, first_dot_dot)

import_prefix_to_idents(path) == import_prefix_segments(Split(path, "/"), 1, TRUE)

\* parse_str(&seg).unwrap() of a segment that is no identifier
import_prefix_panics(path) ==
    \E seg \in Range(Split(path, "/")) :
        seg \notin {Dot, DotDot} /\ ~IsIdentifier(ModSegment(seg))

\* import_path_to_type_path_prefix whose flag starts cleared
import_path_to_type_path_prefix_cleared(path) ==
    import_prefix_segments(Split(path, "/"), 1, FALSE)

\* import_path_to_type_path_prefix: the same loop, over path segments
import_path_to_type_path_prefix(path) == import_prefix_segments(Split(path, "/"), 1, TRUE)

-----------------------------------------------------------------------------
(* ty.rs: ts_type_to_type *)

\* ts_type_to_type that stops only at the type it is called with
ts_type_panics_outermost(ty) == IsTsKeyword(ty, TsTodoKeywords) \/ ty.k \in TsTodoKinds

\* Whether ts_type_to_type panics on ty: a todo!() arm, or parse_quote! of
\* Box<[A, B]> for Array with more than one argument.
RECURSIVE ts_type_panics(_)
ts_type_panics(ty) ==
    \/ IsTsKeyword(ty, TsTodoKeywords)
    \/ ty.k \in TsTodoKinds
    \/ /\ ty.k = "TsTypeRef"
       /\ \/ \E i \in 1..Len(ty.a) : ts_type_panics(ty.a[i])
          \/ sanitize_sym(ty.n) = ArrayIdent /\ Len(ty.a) > 1
    \/ /\ ty.k = "TsImportType"
       /\ starts_with_dot(ty.tp[1])
       /\ ty.n = <<>> \/ import_prefix_panics(ty.tp[1])
    \/ /\ ty.k \in {"TsFnType", "TsTupleType"}
       /\ \E i \in 1..Len(ty.a) : ts_type_panics(ty.a[i])
    \/ /\ ty.k \in {"TsArrayType", "TsOptionalType", "TsParenthesizedType"}
       /\ ts_type_panics(ty.a[1])
    \/ /\ ty.k = "TsUnionType"
       /\ Len(ty.a) = 2
       /\ IsTsKeyword(ty.a[2], {"undefined", "null"})
       /\ ts_type_panics(ty.a[1])
    \/ /\ ty.k = "TsIntersectionType"
       /\ Len(ty.a) > 0
       /\ ts_type_panics(ty.a[1])

RECURSIVE ts_type_to_type(_)
ts_type_to_type(ty) ==
    CASE ty.k = "NoAnn" -> js_value
      [] ty.k = "TsKeywordType" ->
            CASE ty.n[1] \in TsJsValueKeywords -> js_value
              [] ty.n[1] = "number"  -> Prim("f64")
              [] ty.n[1] = "boolean" -> Prim("bool")
              [] ty.n[1] = "string"  -> StringTy
              [] ty.n[1] = "void"    -> TupleTy(<<>>)
              [] OTHER -> js_value
      [] ty.k = "TsFnType" ->
            LET gen == ByeByeGenerics_new(ty.tp)
                inputs == [i \in 1..Len(ty.a) |-> ts_type_to_type(ty.a[i])]
            IN  Ref(Paren(DynFn(
                    [i \in 1..Len(inputs) |-> ByeByeGenerics_visit_type(gen, inputs[i])])))
      [] ty.k \in {"TsTypeRef", "TsQualifiedName", "TsImportType"} ->
            \* the names to sanitize: the qualifiers of a qualified name with Mod
            \* after each, and the last name
            LET left == IF ty.k = "TsQualifiedName" THEN ty.tp ELSE <<>>
                syms == [i \in 1..Len(left) |-> left[i] \o <<"M","o","d">>] \o <<ty.n>>
            IN  CHOOSE t \in
                    {CASE ty.k = "TsTypeRef" ->
                            IF ty.a # <<>> /\ idents[1] = ArrayIdent
                            THEN BoxSlice(ts_type_to_type(ty.a[1]))
                            ELSE Named(idents[1])
                       [] ty.k = "TsQualifiedName" -> PathTy(idents)
                       [] ty.k = "TsImportType" ->
                            IF ~starts_with_dot(ty.tp[1]) THEN js_value
                            ELSE PathTy(import_path_to_type_path_prefix(ty.tp[1]) \o idents) :
                     idents \in {[i \in 1..Len(syms) |-> sanitize_sym(syms[i])]}} : TRUE
      [] ty.k \in TsOpaqueKinds -> js_value
      [] ty.k = "TsArrayType" -> BoxSlice(ts_type_to_type(ty.a[1]))
      [] ty.k = "TsOptionalType" -> OptionTy(ts_type_to_type(ty.a[1]))
      [] ty.k = "TsUnionType" ->
            IF Len(ty.a) = 2 /\ IsTsKeyword(ty.a[2], {"undefined", "null"})
            THEN OptionTy(ts_type_to_type(ty.a[1]))
            ELSE js_value
      [] ty.k = "TsIntersectionType" ->
            IF Len(ty.a) > 0 THEN ts_type_to_type(ty.a[1]) ELSE js_value
      [] ty.k = "TsParenthesizedType" -> Paren(ts_type_to_type(ty.a[1]))
      [] ty.k = "TsTupleType" ->
            ParenthesizedTokens([i \in 1..Len(ty.a) |-> ts_type_to_type(ty.a[i])])
      [] ty.k = "TsThisType" -> SelfTy
      [] OTHER -> js_value

-----------------------------------------------------------------------------
(* swc declarations *)

\* Pat::Ident of a parameter or declarator
Param(sym, optional, type_ann) ==
    [sym |-> sym, optional |-> optional, type_ann |-> type_ann]

\* swc Function: parameters, type parameters, return type annotation
Function(params, type_params, return_type) ==
    [params |-> params, type_params |-> type_params, return_type |-> return_type]

NoFunction == Function(<<>>, <<>>, NoAnn)

\* A ClassMember or a TsTypeElement.  key = <<>> is a key that is no identifier.
Member(kind, key, accessibility, is_static, method_kind, function, type_ann, is_optional, type_params) ==
    [kind |-> kind, key |-> key, accessibility |-> accessibility,
     is_static |-> is_static, method_kind |-> method_kind, function |-> function,
     type_ann |-> type_ann, is_optional |-> is_optional, type_params |-> type_params]

\* A Decl.  super = <<>> is a class without a superclass identifier; is_lit says
\* that the right-hand side of a type alias is a type literal (its members).
Decl(kind, sym, type_params, super, members, function, decls, is_lit) ==
    [kind |-> kind, sym |-> sym, type_params |-> type_params, super |-> super,
     members |-> members, function |-> function, decls |-> decls, is_lit |-> is_lit]

\* the declaration of a statement that carries none
NoDecl == Decl("None", <<>>, <<>>, <<>>, <<>>, NoFunction, <<>>, FALSE)

\* A ModuleItem: "ExportDecl" and "StmtDecl" carry decl, "ExportDefaultExpr"
\* carries the identifier that is exported by default.
ModuleItem(kind, decl, ident) ==
    [kind |-> kind, decl |-> decl, ident |-> ident, specifiers |-> <<>>, src |-> <<>>]

-----------------------------------------------------------------------------
(* syn items *)

\* one entry of a #[wasm_bindgen(..)] attribute: key, or key = val; lit says
\* that val is a string literal and not a path
Entry(key, val, lit) == [key |-> key, val |-> val, lit |-> lit]

Flag(key) == Entry(key, <<>>, FALSE)

PatType(pat, ty) == [pat |-> pat, ty |-> ty]

Signature(ident, inputs, output) ==
    [ident |-> ident, inputs |-> inputs, output |-> output]

\* ForeignItem::Fn (inputs, output), ForeignItem::Static (ty), ForeignItem::Type
ForeignItem(kind, ident, inputs, output, ty, attrs) ==
    [kind |-> kind, ident |-> ident, inputs |-> inputs, output |-> output,
     ty |-> ty, attrs |-> attrs]

ForeignItemFn(sig, attrs) ==
    ForeignItem("Fn", sig.ident, sig.inputs, sig.output, NoTy, attrs)

ThisIdent == <<"t","h","i","s">>

NewIdent == <<"n","e","w">>

ConstructorSym == <<"c","o","n","s","t","r","u","c","t","o","r">>

\* the default visit_signature_mut of ByeByeGenerics: every input and the output
ByeByeGenerics_visit_signature(gen, sig) ==
    [sig EXCEPT
        !.inputs = [i \in 1..Len(sig.inputs) |->
                      PatType(sig.inputs[i].pat,
                              ByeByeGenerics_visit_type(gen, sig.inputs[i].ty))],
        !.output = ByeByeGenerics_visit_type(gen, sig.output)]

\* the default visit_foreign_item_mut of ByeByeGenerics
ByeByeGenerics_visit_foreign_item(gen, fi) ==
    [fi EXCEPT
        !.inputs = [i \in 1..Len(fi.inputs) |->
                      PatType(fi.inputs[i].pat,
                              ByeByeGenerics_visit_type(gen, fi.inputs[i].ty))],
        !.output = ByeByeGenerics_visit_type(gen, fi.output),
        !.ty = ByeByeGenerics_visit_type(gen, fi.ty)]

\* The lines ts_type_to_type writes with eprintln! while it maps ty, in order.
RECURSIVE ts_type_eprintln(_)
ts_type_eprintln(ty) ==
    CASE ty.k = "TsTypeQuery" -> <<"Type queries unsupported">>
      [] ty.k = "TsTypeLit" -> <<"Type literals unsupported">>
      [] ty.k = "TsLitType" -> <<"Lit types unsupported">>
      [] ty.k = "TsIndexedAccessType" -> <<"Indexed access type unsupported">>
      [] ty.k = "TsImportType" ->
            IF starts_with_dot(ty.tp[1]) THEN <<>> ELSE <<"Import unknown">>
      [] ty.k \in {"TsFnType", "TsTupleType", "TsTypeRef"} ->
            Flatten([i \in 1..Len(ty.a) |-> ts_type_eprintln(ty.a[i])])
      [] ty.k \in {"TsArrayType", "TsOptionalType", "TsParenthesizedType"} ->
            ts_type_eprintln(ty.a[1])
      [] ty.k = "TsUnionType" ->
            IF Len(ty.a) = 2 /\ IsTsKeyword(ty.a[2], {"undefined", "null"})
            THEN ts_type_eprintln(ty.a[1])
            ELSE <<>>
      [] ty.k = "TsIntersectionType" ->
            IF Len(ty.a) > 0 THEN ts_type_eprintln(ty.a[1])
            ELSE <<"Empty intersection type">>
      [] OTHER -> <<>>

-----------------------------------------------------------------------------
(* pat.rs, func.rs *)

pat_to_pat_type(pat) ==
    LET ty == ts_type_to_type(pat.type_ann)
    IN  PatType(sanitize_sym(pat.sym), IF pat.optional THEN OptionTy(ty) ELSE ty)

\* function_signature that maps every declared return type, void too
function_signature_unfiltered(name, function) ==
    LET generics == ByeByeGenerics_new(function.type_params)
        params == [i \in 1..Len(function.params) |-> pat_to_pat_type(function.params[i])]
        ret == IF function.return_type.k = "NoAnn" THEN NoTy
               ELSE ts_type_to_type(function.return_type)
    IN  ByeByeGenerics_visit_signature(generics, Signature(name, params, ret))

\* function_signature.  Its generic_stripper is built from the function's own
\* type parameters and is applied to the whole signature; it is modelled as the
\* visitor of util.rs that takes a list of generics, ByeByeGenerics.
function_signature(name, function) ==
    LET generics == ByeByeGenerics_new(function.type_params)
        params == [i \in 1..Len(function.params) |-> pat_to_pat_type(function.params[i])]
        ret == IF function.return_type.k = "NoAnn"
                  \/ IsTsKeyword(function.return_type, {"void"})
               THEN NoTy
               ELSE ts_type_to_type(function.return_type)
    IN  ByeByeGenerics_visit_signature(generics, Signature(name, params, ret))

function_panics(function) ==
    \/ \E i \in 1..Len(function.params) : ts_type_panics(function.params[i].type_ann)
    \/ ts_type_panics(function.return_type)

\* the lines function_signature writes: those of its parameters, then those of
\* its return type
function_eprintln(function) ==
    Flatten([i \in 1..Len(function.params) |-> ts_type_eprintln(function.params[i].type_ann)])
    \o ts_type_eprintln(function.return_type)

-----------------------------------------------------------------------------
(* wasm.rs: method_of *)

\* method_of that finds no owner
method_of_none(ff) == NoTy

\* The owner of an extern function: the path of a static_method_of attribute,
\* the returned path of a constructor, or the path behind the reference of a
\* first parameter called this.  NoTy is Option::None.
method_of(ff) ==
    LET hit(attr) ==
            IF Len(attr) = 1 /\ attr[1].key = "static_method_of" /\ ~attr[1].lit
            THEN Named(attr[1].val)
            ELSE IF Len(attr) = 1 /\ attr[1].key = "constructor" /\ IsTypePath(ff.output)
            THEN ff.output
            ELSE NoTy
        hits == {i \in 1..Len(ff.attrs) : hit(ff.attrs[i]) # NoTy}
    IN  IF hits # {}
        THEN hit(ff.attrs[CHOOSE i \in hits : \A j \in hits : i <= j])
        ELSE IF /\ Len(ff.inputs) > 0
                /\ ff.inputs[1].ty.k = "Ref"
                /\ IsTypePath(ff.inputs[1].ty.a[1])
                /\ ff.inputs[1].pat = ThisIdent
        THEN ff.inputs[1].ty.a[1]
        ELSE NoTy

-----------------------------------------------------------------------------
(* util.rs: ModuleBindingsCleaner *)

\* SelfToClass::visit_type_mut: a type that is the path Self becomes the class
\* type; the visitor does not descend into any other type.
SelfToClass_visit_type(class_type, t) == IF t = SelfTy THEN class_type ELSE t

\* ModuleBindingsCleaner::visit_signature_mut, on the signature of an item
ModuleBindingsCleaner_visit_signature(ff) ==
    IF Len(ff.inputs) > 0 /\ ff.inputs[1].ty.k = "Ref"
    THEN LET class_type == ff.inputs[1].ty.a[1]
         IN  [ff EXCEPT
                !.inputs = [i \in 1..Len(ff.inputs) |->
                              PatType(ff.inputs[i].pat,
                                      SelfToClass_visit_type(class_type, ff.inputs[i].ty))],
                !.output = SelfToClass_visit_type(class_type, ff.output)]
    ELSE ff

\* the while loop of visit_foreign_item_mut: the first counter >= 1 whose
\* "{ident}_{counter}" is not registered
RECURSIVE FirstFreeCounter(_, _, _)
FirstFreeCounter(entries, ident, counter) ==
    IF (ident \o <<"_">> \o to_string(counter)) \in entries
    THEN FirstFreeCounter(entries, ident, counter + 1)
    ELSE counter

\* visit_foreign_item_mut with `if counter > 2` for `if counter > 1`
ModuleBindingsCleaner_visit_foreign_item_late(registry, fi0) ==
    LET fi == IF fi0.kind = "Fn" THEN ModuleBindingsCleaner_visit_signature(fi0) ELSE fi0
        clazz == IF fi.kind = "Fn" THEN method_of(fi) ELSE NoTy
        entries == {e[2] : e \in {r \in registry : r[1] = clazz}}
        counter == IF fi.ident \in entries THEN FirstFreeCounter(entries, fi.ident, 1) ELSE 0
        ident_string ==
            IF counter > 0 THEN fi.ident \o <<"_">> \o to_string(counter) ELSE fi.ident
    IN  IF fi.kind = "Type"
        THEN [fi |-> fi, registry |-> registry]
        ELSE [fi |-> IF counter > 1 THEN [fi EXCEPT !.ident = ident_string] ELSE fi,
              registry |-> registry \cup {<<clazz, ident_string>>}]

\* visit_foreign_item_mut without its closing entries.insert(ident_string)
ModuleBindingsCleaner_visit_foreign_item_uninserted(registry, fi0) ==
    LET fi == IF fi0.kind = "Fn" THEN ModuleBindingsCleaner_visit_signature(fi0) ELSE fi0
        clazz == IF fi.kind = "Fn" THEN method_of(fi) ELSE NoTy
        entries == {e[2] : e \in {r \in registry : r[1] = clazz}}
        ident_string ==
            IF fi.ident \in entries
            THEN fi.ident \o <<"_">> \o to_string(FirstFreeCounter(entries, fi.ident, 1))
            ELSE fi.ident
    IN  IF fi.kind = "Type"
        THEN [fi |-> fi, registry |-> registry]
        ELSE [fi |-> [fi EXCEPT !.ident = ident_string],
              registry |-> IF ident_string = fi.ident
                           THEN registry \cup {<<clazz, ident_string>>}
                           ELSE registry]

\* ModuleBindingsCleaner::visit_foreign_item_mut.  self.0 is the set of the
\* pairs <<owner, name>> it has registered.  Answers the item and the registry.
ModuleBindingsCleaner_visit_foreign_item(registry, fi0) ==
    LET fi == IF fi0.kind = "Fn" THEN ModuleBindingsCleaner_visit_signature(fi0) ELSE fi0
        clazz == IF fi.kind = "Fn" THEN method_of(fi) ELSE NoTy
        entries == {e[2] : e \in {r \in registry : r[1] = clazz}}
        ident_string ==
            IF fi.ident \in entries
            THEN fi.ident \o <<"_">> \o to_string(FirstFreeCounter(entries, fi.ident, 1))
            ELSE fi.ident
    IN  IF fi.kind = "Type"
        THEN [fi |-> fi, registry |-> registry]
        ELSE [fi |-> [fi EXCEPT !.ident = ident_string],
              registry |-> registry \cup {<<clazz, ident_string>>}]

\* items.iter_mut().for_each(|i| dedupe.visit_foreign_item_mut(i)) from item i on
RECURSIVE ModuleBindingsCleaner_for_each(_, _, _)
ModuleBindingsCleaner_for_each(registry, items, i) ==
    IF i > Len(items) THEN items
    ELSE LET r == ModuleBindingsCleaner_visit_foreign_item(registry, items[i])
         IN  ModuleBindingsCleaner_for_each(r.registry, [items EXCEPT ![i] = r.fi], i + 1)

\* a pass of a fresh ModuleBindingsCleaner::default() over items
ModuleBindingsCleaner_pass(items) == ModuleBindingsCleaner_for_each({}, items, 1)

-----------------------------------------------------------------------------
(* decl.rs *)

ty_to_binding(raw_name) ==
    ForeignItem("Type", sanitize_sym(raw_name), <<>>, NoTy, NoTy,
                << <<Entry("js_name", raw_name, TRUE)>> >>)

\* method_to_binding that never inserts the receiver
method_to_binding_unreceived(class_name, cleaner, raw_method_name, kind, is_static, function) ==
    LET sig == ByeByeGenerics_visit_signature(cleaner,
                   function_signature(sanitize_sym(raw_method_name), function))
        tag == IF is_static THEN <<Entry("static_method_of", class_name, FALSE)>>
               ELSE <<Flag("method")>>
    IN  ForeignItemFn(sig, <<tag, <<Entry("js_name", raw_method_name, TRUE)>> >>)

method_to_binding(class_name, cleaner, raw_method_name, kind, is_static, function) ==
    LET method_name ==
            CASE kind = "Method" -> sanitize_sym(raw_method_name)
              [] kind = "Getter" ->
                    sanitize_sym(<<"g","e","t","_">> \o sanitize_sym(raw_method_name))
              [] kind = "Setter" ->
                    sanitize_sym(<<"s","e","t","_">> \o sanitize_sym(raw_method_name))
        sig == ByeByeGenerics_visit_signature(cleaner,
                                              function_signature(method_name, function))
        inputs == IF is_static THEN sig.inputs
                  ELSE <<PatType(ThisIdent, Ref(Named(class_name)))>> \o sig.inputs
        tag == IF is_static THEN <<Entry("static_method_of", class_name, FALSE)>>
               ELSE CASE kind = "Method" -> <<Flag("method")>>
                      [] kind = "Getter" -> <<Flag("method"), Flag("getter")>>
                      [] kind = "Setter" -> <<Flag("method"), Flag("setter")>>
    IN  ForeignItemFn([sig EXCEPT !.inputs = inputs],
                      <<tag, <<Entry("js_name", raw_method_name, TRUE)>> >>)

prop_to_binding(class_name, cleaner, raw_prop_name, is_static, is_optional, type_ann) ==
    LET prop_name == sanitize_sym(raw_prop_name)
        ty0 == ts_type_to_type(type_ann)
        ty == IF is_optional THEN OptionTy(ty0) ELSE ty0
        sig == ByeByeGenerics_visit_signature(cleaner,
                   Signature(prop_name, <<PatType(ThisIdent, Ref(Named(class_name)))>>, ty))
        tag == IF is_static THEN <<Entry("static_method_of", class_name, FALSE)>>
               ELSE <<Flag("method")>>
    IN  ForeignItemFn(sig, <<tag, <<Entry("js_name", raw_prop_name, TRUE)>> >>)

\* the arms of the match on a member of a class body that follow its first arm
class_member_arms(class_name, cleaner, member) ==
    CASE member.kind \in {"PrivateMethod", "PrivateProp"} -> <<>>
      [] member.kind = "Constructor" ->
            LET name == IF member.key = ConstructorSym THEN NewIdent
                        ELSE sanitize_sym(member.key)
                syn_params == [i \in 1..Len(member.function.params) |->
                                 pat_to_pat_type(member.function.params[i])]
                sig == ByeByeGenerics_visit_signature(cleaner,
                           Signature(name, syn_params, Named(class_name)))
            IN  <<ForeignItemFn(sig, << <<Flag("constructor")>> >>)>>
      [] member.kind = "Method" ->
            IF member.key # <<>>
            THEN <<method_to_binding(class_name, cleaner, member.key, member.method_kind,
                                     member.is_static, member.function)>>
            ELSE <<>>
      [] member.kind = "ClassProp" ->
            IF member.key # <<>>
            THEN <<prop_to_binding(class_name, cleaner, member.key, member.is_static,
                                   member.is_optional, member.type_ann)>>
            ELSE <<>>
      [] OTHER -> <<>>

\* the match with a first arm that skips Accessibility::Private only
class_member_to_binding_protected(class_name, cleaner, member) ==
    IF /\ member.kind \in {"Method", "Constructor", "ClassProp"}
       /\ member.accessibility = "Private"
    THEN <<>>
    ELSE class_member_arms(class_name, cleaner, member)

\* the items of one member of a class body (the body of the for loop): the first
\* arm of the match skips the members that are private or protected
class_member_to_binding(class_name, cleaner, member) ==
    IF /\ member.kind \in {"Method", "Constructor", "ClassProp"}
       /\ member.accessibility \in {"Private", "Protected"}
    THEN <<>>
    ELSE class_member_arms(class_name, cleaner, member)

class_to_binding(decl) ==
    LET cleaner == ByeByeGenerics_new(decl.type_params)
        clazz0 == ty_to_binding(decl.sym)
        clazz == IF decl.super # <<>>
                 THEN [clazz0 EXCEPT !.attrs =
                          Append(@, <<Entry("extends", sanitize_sym(decl.super), FALSE)>>)]
                 ELSE clazz0
        class_name == clazz.ident
    IN  <<clazz>> \o
        Flatten([i \in 1..Len(decl.members) |->
                    class_member_to_binding(class_name, cleaner, decl.members[i])])

\* the items of one element of a type literal or an interface body
ty_elem_to_binding(name, class_cleaner, elem) ==
    CASE elem.kind = "TsPropertySignature" ->
            IF elem.key # <<>>
            THEN <<prop_to_binding(name,
                       ByeByeGenerics_join(ByeByeGenerics_new(elem.type_params), class_cleaner),
                       elem.key, FALSE, elem.is_optional, elem.type_ann)>>
            ELSE <<>>
      [] elem.kind = "TsGetterSignature" ->
            IF elem.key # <<>>
            THEN <<method_to_binding(name, class_cleaner, elem.key, "Getter", FALSE,
                                     Function(<<>>, <<>>, elem.type_ann))>>
            ELSE <<>>
      [] elem.kind = "TsSetterSignature" ->
            IF elem.key # <<>>
            THEN <<method_to_binding(name, class_cleaner, elem.key, "Setter", FALSE,
                                     Function(elem.function.params, <<>>, NoAnn))>>
            ELSE <<>>
      [] elem.kind = "TsMethodSignature" ->
            IF elem.key # <<>>
            THEN <<method_to_binding(name,
                       ByeByeGenerics_join(ByeByeGenerics_new(elem.function.type_params),
                                           class_cleaner),
                       elem.key, "Method", FALSE, elem.function)>>
            ELSE <<>>
      [] OTHER -> <<>>

ty_elems_to_binding(name, class_cleaner, elems) ==
    ModuleBindingsCleaner_pass(
        Flatten([i \in 1..Len(elems) |-> ty_elem_to_binding(name, class_cleaner, elems[i])]))

decl_to_items(decl) ==
    CASE decl.kind = "Class" -> class_to_binding(decl)
      [] decl.kind = "Fn" ->
            <<ForeignItemFn(function_signature(sanitize_sym(decl.sym), decl.function), <<>>)>>
      [] decl.kind = "Var" ->
            LET pat_type == pat_to_pat_type(decl.decls[1])
            IN  <<ForeignItem("Static", pat_type.pat, <<>>, NoTy, pat_type.ty,
                              << <<Entry("js_name", pat_type.pat, FALSE)>> >>)>>
      [] decl.kind = "TsTypeAlias" ->
            LET alias == ty_to_binding(decl.sym)
                cleaner == ByeByeGenerics_new(decl.type_params)
            IN  <<alias>> \o
                (IF decl.is_lit
                 THEN ty_elems_to_binding(alias.ident, cleaner, decl.members)
                 ELSE <<>>)
      [] decl.kind = "TsInterface" ->
            LET iface == ty_to_binding(decl.sym)
                cleaner == ByeByeGenerics_new(decl.type_params)
                elems == ty_elems_to_binding(iface.ident, cleaner, decl.members)
            IN  <<iface>> \o
                [i \in 1..Len(elems) |-> ByeByeGenerics_visit_foreign_item(cleaner, elems[i])]
      [] OTHER -> <<>>

\* Whether decl_to_items panics: todo!(), assert!, unwrap() and the panics of
\* ts_type_to_type on the types it maps.
class_member_panics(member) ==
    IF /\ member.kind \in {"Method", "Constructor", "ClassProp"}
       /\ member.accessibility \in {"Private", "Protected"}
    THEN FALSE
    ELSE \/ member.kind \in {"TsIndexSignature", "Empty", "StaticBlock"}
         \/ /\ member.kind = "Constructor"
            /\ member.key = <<>> \/ function_panics(member.function)
         \/ /\ member.kind = "Method"
            /\ member.key # <<>>
            /\ function_panics(member.function)
         \/ /\ member.kind = "ClassProp"
            /\ member.key # <<>>
            /\ ts_type_panics(member.type_ann)

ty_elem_panics(elem) ==
    \/ elem.kind \in {"TsCallSignatureDecl", "TsConstructSignatureDecl"}
    \/ /\ elem.kind = "TsPropertySignature"
       /\ Len(elem.function.params) > 0
          \/ (elem.key # <<>> /\ ts_type_panics(elem.type_ann))
    \/ /\ elem.kind = "TsGetterSignature"
       /\ elem.key # <<>>
       /\ ts_type_panics(elem.type_ann)
    \/ /\ elem.kind \in {"TsSetterSignature", "TsMethodSignature"}
       /\ elem.key # <<>>
       /\ function_panics(elem.function)

decl_panics(decl) ==
    \/ decl.kind = "TsEnum"
    \/ decl.kind = "Fn" /\ function_panics(decl.function)
    \/ /\ decl.kind = "Var"
       /\ Len(decl.decls) # 1 \/ ts_type_panics(decl.decls[1].type_ann)
    \/ /\ decl.kind = "Class"
       /\ \E i \in 1..Len(decl.members) : class_member_panics(decl.members[i])
    \/ /\ decl.kind = "TsInterface" \/ (decl.kind = "TsTypeAlias" /\ decl.is_lit)
       /\ \E i \in 1..Len(decl.members) : ty_elem_panics(decl.members[i])

\* The lines decl_to_items writes with eprintln!, in order.
class_member_eprintln(member) ==
    IF member.accessibility \in {"Private", "Protected"} \/ member.key = <<>> THEN <<>>
    ELSE CASE member.kind \in {"Constructor", "Method"} -> function_eprintln(member.function)
           [] member.kind = "ClassProp" -> ts_type_eprintln(member.type_ann)
           [] OTHER -> <<>>

ty_elem_eprintln(elem) ==
    CASE elem.kind = "TsIndexSignature" -> <<"Index signatures not supported">>
      [] elem.key = <<>> -> <<>>
      [] elem.kind \in {"TsPropertySignature", "TsGetterSignature"} ->
            ts_type_eprintln(elem.type_ann)
      [] elem.kind \in {"TsSetterSignature", "TsMethodSignature"} ->
            function_eprintln(elem.function)
      [] OTHER -> <<>>

decl_eprintln(decl) ==
    CASE decl.kind = "Fn" -> function_eprintln(decl.function)
      [] decl.kind = "Var" -> ts_type_eprintln(decl.decls[1].type_ann)
      [] decl.kind = "Class" ->
            Flatten([i \in 1..Len(decl.members) |-> class_member_eprintln(decl.members[i])])
      [] decl.kind = "TsInterface" \/ (decl.kind = "TsTypeAlias" /\ decl.is_lit) ->
            Flatten([i \in 1..Len(decl.members) |-> ty_elem_eprintln(decl.members[i])])
      [] OTHER -> <<>>

-----------------------------------------------------------------------------
(* module.rs: imports_to_uses *)

\* swc ImportSpecifier: kind "Named" (local, and imported as a sequence of 0 or
\* 1 names), "Default" (local) or "Namespace" (local)
ImportSpecifier(kind, local, imported) ==
    [kind |-> kind, local |-> local, imported |-> imported]

\* swc ExportSpecifier: kind "Named" (orig, and exported as a sequence of 0 or
\* 1 names), "Default" (exported = <<name>>) or "Namespace"
ExportSpecifier(kind, orig, exported) ==
    [kind |-> kind, orig |-> orig, exported |-> exported]

\* ModuleDecl::Import
ImportDecl(specifiers, src) ==
    [ModuleItem("Import", NoDecl, <<>>) EXCEPT !.specifiers = specifiers, !.src = <<src>>]

\* ModuleDecl::ExportNamed; src is a sequence of 0 or 1 paths
NamedExport(specifiers, src) ==
    [ModuleItem("ExportNamed", NoDecl, <<>>) EXCEPT !.specifiers = specifiers, !.src = src]

\* syn UseTree
UseName(ident) == [k |-> "Name", ident |-> ident, rename |-> <<>>, items |-> <<>>]

UseRename(ident, rename) == [k |-> "Rename", ident |-> ident, rename |-> rename, items |-> <<>>]

UseGroup(items) == [k |-> "Group", ident |-> <<>>, rename |-> <<>>, items |-> items]

UsePath(ident, tree) == [k |-> "Path", ident |-> ident, rename |-> <<>>, items |-> <<tree>>]

\* the leaf of one import specifier, as a sequence of 0 or 1
import_specifier_leaf(spec) ==
    CASE spec.kind = "Named" ->
            LET name == sanitize_sym(spec.local)
            IN  IF spec.imported # <<>>
                THEN <<UseRename(name, sanitize_sym(spec.imported[1]))>>
                ELSE <<UseName(name)>>
      [] spec.kind = "Default" -> <<UseRename(DefaultIdentifier, sanitize_sym(spec.local))>>
      [] OTHER -> <<>>

\* the leaf of one export specifier
export_specifier_leaf(spec) ==
    CASE spec.kind = "Named" ->
            LET name == sanitize_sym(spec.orig)
            IN  IF spec.exported # <<>>
                THEN <<UseRename(name, sanitize_sym(spec.exported[1]))>>
                ELSE <<UseName(name)>>
      [] spec.kind = "Default" ->
            <<UseRename(DefaultIdentifier, sanitize_sym(spec.exported[1]))>>
      [] OTHER -> <<>>

\* use_path_to_use_tree: the prefix is popped from its end, so that its first
\* identifier is the outermost path
RECURSIVE use_path_to_use_tree(_, _)
use_path_to_use_tree(prefix, leaf) ==
    IF prefix = <<>> THEN leaf
    ELSE use_path_to_use_tree(SubSeq(prefix, 1, Len(prefix) - 1),
                              UsePath(prefix[Len(prefix)], leaf))

\* leaves.len() > 1 makes a group, otherwise leaves.pop().unwrap()
leaves_to_leaf(leaves) == IF Len(leaves) > 1 THEN UseGroup(leaves) ELSE leaves[Len(leaves)]

\* the use statements of one statement of the body: 0 or 1
item_to_uses(item) ==
    CASE item.kind = "Import" ->
            LET leaves == Flatten([i \in 1..Len(item.specifiers) |->
                              import_specifier_leaf(item.specifiers[i])])
            IN  IF leaves = <<>> THEN <<>>
                ELSE <<use_path_to_use_tree(import_prefix_to_idents(item.src[1]),
                                            leaves_to_leaf(leaves))>>
      [] item.kind = "ExportDefaultExpr" ->
            <<UsePath(SelfIdent, UseRename(sanitize_sym(item.ident), DefaultIdentifier))>>
      [] item.kind = "ExportNamed" ->
            LET prefix == IF item.src # <<>> THEN import_prefix_to_idents(item.src[1])
                          ELSE <<SelfIdent>>
                leaves == Flatten([i \in 1..Len(item.specifiers) |->
                              export_specifier_leaf(item.specifiers[i])])
            IN  <<use_path_to_use_tree(prefix, leaves_to_leaf(leaves))>>
      [] OTHER -> <<>>

imports_to_uses(body) == Flatten([i \in 1..Len(body) |-> item_to_uses(body[i])])

\* the unwrap() and todo!() of imports_to_uses
item_to_uses_panics(item) ==
    CASE item.kind = "Import" -> import_prefix_panics(item.src[1])
      [] item.kind = "ExportDefaultExpr" -> item.ident = <<>>
      [] item.kind = "ExportNamed" ->
            \/ item.src # <<>> /\ import_prefix_panics(item.src[1])
            \/ \E i \in 1..Len(item.specifiers) : item.specifiers[i].kind = "Namespace"
            \/ item.specifiers = <<>>
      [] OTHER -> FALSE

imports_to_uses_panics(body) == \E i \in 1..Len(body) : item_to_uses_panics(body[i])

(* module.rs: module_as_binding, for a unit that is no namespace *)

\* decl_ident: the raw identifier of a declaration
decl_ident(decl) == IF decl.kind = "Var" THEN decl.decls[1].sym ELSE decl.sym

\* declared_bodies.get(default_ident): the last unexported declaration whose raw
\* name is the identifier of the last default export, as a sequence of 0 or 1
default_decl(body) ==
    LET defaults == {i \in 1..Len(body) : body[i].kind = "ExportDefaultExpr"}
        default_ident == body[CHOOSE i \in defaults : \A j \in defaults : j <= i].ident
        declared == {i \in 1..Len(body) :
                        body[i].kind = "StmtDecl" /\ decl_ident(body[i].decl) = default_ident}
    IN  IF defaults = {} \/ declared = {} THEN <<>>
        ELSE <<body[CHOOSE i \in declared : \A j \in declared : j <= i].decl>>

\* A namespace  sym { body }.  body is held in the field members; is_lit says
\* that the body is a block, and not the rest of a dotted name  sym.inner { }.
TsModuleDecl(sym, body, is_block) ==
    Decl("TsModule", sym, <<>>, <<>>, body, NoFunction, <<>>, is_block)

JsNamespace(path) == Entry("js_namespace", path, TRUE)

\* ApplyNamespace that never finds the attribute of an inner namespace
ApplyNamespace_visit_foreign_item_pushed(ns, fi) ==
    [fi EXCEPT !.attrs = Append(fi.attrs, <<JsNamespace(<<ns>>)>>)]

\* ApplyNamespace::visit_foreign_item_mut: ns goes in front of the array of the
\* first attribute that is js_namespace = [..], or a new attribute is pushed
ApplyNamespace_visit_foreign_item(ns, fi) ==
    LET hits == {i \in 1..Len(fi.attrs) :
                    Len(fi.attrs[i]) = 1 /\ fi.attrs[i][1].key = "js_namespace"}
        first == CHOOSE i \in hits : \A j \in hits : i <= j
    IN  IF hits # {}
        THEN [fi EXCEPT !.attrs[first] = <<JsNamespace(<<ns>> \o fi.attrs[first][1].val)>>]
        ELSE [fi EXCEPT !.attrs = Append(fi.attrs, <<JsNamespace(<<ns>>)>>)]

\* an extern block of a namespace: path names the nested mod items around it
ModBlock(path, items) == [path |-> path, items |-> items]

ApplyNamespace(ns, blocks) ==
    [b \in 1..Len(blocks) |->
        ModBlock(blocks[b].path,
                 [i \in 1..Len(blocks[b].items) |->
                     ApplyNamespace_visit_foreign_item(ns, blocks[b].items[i])])]

\* the statements of a body that the second arm of module_as_binding takes: a
\* namespace that is exported, or that is a statement of a namespace
IsTsModuleItem(item, in_namespace) ==
    /\ item.kind = "ExportDecl" \/ (item.kind = "StmtDecl" /\ in_namespace)
    /\ item.decl.kind = "TsModule"

\* the declarations module_as_binding(body, Some(ns)) hands to decl_to_items
namespace_decls(body) ==
    LET lowers(item) == item.kind \in {"ExportDecl", "StmtDecl"} /\ item.decl.kind # "TsModule"
        picked == SelectSeq(body, lowers)
    IN  [i \in 1..Len(picked) |-> picked[i].decl]

ModIdent(raw_name) == sanitize_sym(raw_name) \o <<"M","o","d">>

\* the declarations module_as_binding hands to decl_to_items, in order
lowered_decls(body) ==
    LET exported == {i \in 1..Len(body) :
                        body[i].kind = "ExportDecl" /\ body[i].decl.kind # "TsModule"}
        RECURSIVE pick(_)
        pick(i) == IF i > Len(body) THEN <<>>
                   ELSE (IF i \in exported THEN <<body[i].decl>> ELSE <<>>) \o pick(i + 1)
    IN  pick(1) \o default_decl(body)

RECURSIVE module_as_binding(_, _)
RECURSIVE ts_module_to_binding(_)

\* module_as_binding(body, namespace) up to its dedupe pass, namespace a
\* sequence of 0 or 1 names: foreign_items are the items of decl_to_items in
\* the order of the statements, mods the extern blocks of the namespaces that
\* ts_module_to_binding lowered
module_as_binding(body, namespace) ==
    LET in_namespace == namespace # <<>>
        decls == IF in_namespace THEN namespace_decls(body) ELSE lowered_decls(body)
    IN  [foreign_items |-> Flatten([i \in 1..Len(decls) |-> decl_to_items(decls[i])]),
         mods |-> Flatten([i \in 1..Len(body) |->
                     IF IsTsModuleItem(body[i], in_namespace)
                     THEN ts_module_to_binding(body[i].decl) ELSE <<>>])]

\* ts_module_to_binding with module_as_binding(body, Some(raw_name)): the mod
\* item of a namespace, as the extern blocks in it; those of the namespaces in
\* its body come first, then its own block when that is not empty, and
\* ApplyNamespace goes over all of them
ts_module_to_binding(module) ==
    IF ~module.is_lit THEN <<>>
    ELSE LET binding == {module_as_binding(module.members, <<module.sym>>)}
             items == {bound.mods \o (IF own = <<>> THEN <<>> ELSE <<ModBlock(<<>>, own)>>) :
                          <<bound, own>> \in {<<bd, ModuleBindingsCleaner_pass(bd.foreign_items)>> :
                                                 bd \in binding}}
             tagged == {ApplyNamespace(module.sym, its) : its \in items}
         IN  CHOOSE mod \in {[b \in 1..Len(t) |->
                                 ModBlock(<<ModIdent(module.sym)>> \o t[b].path, t[b].items)] :
                             t \in tagged} : TRUE

RECURSIVE ts_module_panics(_)
ts_module_panics(module) ==
    /\ module.is_lit
    /\ \E i \in 1..Len(module.members) :
          LET item == module.members[i]
          IN  /\ item.kind \in {"ExportDecl", "StmtDecl"}
              /\ IF item.decl.kind = "TsModule" THEN ts_module_panics(item.decl)
                 ELSE decl_panics(item.decl)

\* the lines ts_module_to_binding writes, in the order of the statements (the
\* line about a dotted name without the name it ends with)
RECURSIVE ts_module_eprintln(_)
ts_module_eprintln(module) ==
    IF ~module.is_lit
    THEN <<"TS namespaces unsupported">>
    ELSE Flatten([i \in 1..Len(module.members) |->
             LET item == module.members[i]
             IN  IF item.kind \notin {"ExportDecl", "StmtDecl"} THEN <<>>
                 ELSE IF item.decl.kind = "TsModule" THEN ts_module_eprintln(item.decl)
                 ELSE decl_eprintln(item.decl)])

\* the lines module_as_binding(body, None) writes: those of the exported
\* declarations and namespaces in the order of the statements, then those of
\* the declaration that is exported by default
module_eprintln(body) ==
    Flatten([i \in 1..Len(body) |->
        IF body[i].kind # "ExportDecl" THEN <<>>
        ELSE IF body[i].decl.kind = "TsModule" THEN ts_module_eprintln(body[i].decl)
        ELSE decl_eprintln(body[i].decl)])
    \o (LET default == default_decl(body)
        IN  IF default = <<>> THEN <<>> ELSE decl_eprintln(default[1]))

\* the mod items of a unit that is no namespace
module_mods(body) == module_as_binding(body, <<>>).mods

\* enclosing_ns: the name of the last `export as namespace` of the unit, as a
\* sequence of 0 or 1
enclosing_ns(body) ==
    LET exports == {i \in 1..Len(body) : body[i].kind = "TsNamespaceExport"}
    IN  IF exports = {} THEN <<>>
        ELSE <<body[CHOOSE i \in exports : \A j \in exports : j <= i].ident>>

\* foreign_items before the dedupe pass
module_foreign_items(body) == module_as_binding(body, <<>>).foreign_items

module_panics(body) ==
    LET decls == lowered_decls(body)
    IN  \/ \E i \in 1..Len(decls) : decl_panics(decls[i])
        \/ \E i \in 1..Len(body) :
               IsTsModuleItem(body[i], FALSE) /\ ts_module_panics(body[i].decl)

-----------------------------------------------------------------------------
(* util.rs: the catalogs (a few of their entries) and BindingsCleaner *)

KNOWN_STRING_TYPES == { <<"B","i","n","a","r","y","T","y","p","e">> }

KNOWN_WEB_SYS_TYPES == { <<"E","l","e","m","e","n","t">> }

KNOWN_JS_SYS_TYPES == { <<"P","r","o","m","i","s","e">> }

\* BindingsCleaner::visit_type_mut with visit_type_path_mut
RECURSIVE BindingsCleaner_visit_type(_)
BindingsCleaner_visit_type(t) ==
    CASE t.k = "Paren" -> BindingsCleaner_visit_type(t.a[1])
      [] t.k = "Option" ->
            LET inner == t.a[1]
                flat == IF inner.k \in {"Option", "JsValue"} THEN inner ELSE t
            IN  [flat EXCEPT !.a = [i \in 1..Len(flat.a) |->
                                      BindingsCleaner_visit_type(flat.a[i])]]
      [] t.k = "Named" -> IF t.n \in KNOWN_STRING_TYPES THEN StringTy ELSE t
      [] OTHER -> [t EXCEPT !.a = [i \in 1..Len(t.a) |-> BindingsCleaner_visit_type(t.a[i])]]

\* wasm.rs merge_attrs: every attribute is parsed as one expression (a panic
\* when it holds several) and they are joined, last first, into one attribute.
merge_attrs_panics(fi) == \E i \in 1..Len(fi.attrs) : Len(fi.attrs[i]) # 1

merge_attrs(fi) ==
    [fi EXCEPT !.attrs =
        << [i \in 1..Len(fi.attrs) |-> fi.attrs[Len(fi.attrs) - i + 1][1]] >>]

\* BindingsCleaner::visit_foreign_item_mut
BindingsCleaner_visit_foreign_item(fi0) ==
    LET fi == merge_attrs(fi0)
    IN  [fi EXCEPT
            !.inputs = [i \in 1..Len(fi.inputs) |->
                          PatType(fi.inputs[i].pat,
                                  BindingsCleaner_visit_type(fi.inputs[i].ty))],
            !.output = BindingsCleaner_visit_type(fi.output),
            !.ty = BindingsCleaner_visit_type(fi.ty)]

-----------------------------------------------------------------------------
(* util.rs: CollectPubs; ty.rs: wasm_abi_set; util.rs: WasmAbify *)

WasmBindgenIdent == <<"w","a","s","m","_","b","i","n","d","g","e","n">>

\* The names CollectPubs gathers from module_items: the extern block's items and
\* the name imported by `use wasm_bindgen::prelude::wasm_bindgen`, which
\* module_as_binding puts before a block that is not empty.
CollectPubs(items) ==
    {items[i].ident : i \in 1..Len(items)}
    \cup (IF items # <<>> THEN {WasmBindgenIdent} ELSE {})

\* CollectPubs::visit_use_name and visit_use_rename over a use tree: the name
\* of a leaf, or the name behind its `as`
RECURSIVE CollectPubs_visit_use_tree(_)
CollectPubs_visit_use_tree(tree) ==
    CASE tree.k = "Name" -> {tree.ident}
      [] tree.k = "Rename" -> {tree.rename}
      [] OTHER -> UNION {CollectPubs_visit_use_tree(tree.items[i]) : i \in 1..Len(tree.items)}

SLICEABLE_BUILTINS ==
    {Prim(n) : n \in {"i32", "isize", "i64", "u32", "usize", "u64", "f32", "f64"}}

NON_SLICEABLE_BUILTINS == {Prim("bool"), Prim("char"), TupleTy(<<>>), StringTy}

KNOWN_TYPES ==
    {Named(n) : n \in KNOWN_STRING_TYPES \cup KNOWN_WEB_SYS_TYPES \cup KNOWN_JS_SYS_TYPES}

wasm_abi_set(custom) ==
    LET js_objects == {Named(n) : n \in custom}
        all == SLICEABLE_BUILTINS \cup NON_SLICEABLE_BUILTINS \cup KNOWN_TYPES
                   \cup js_objects
        sliceable == SLICEABLE_BUILTINS \cup KNOWN_TYPES \cup js_objects
        refs == {Ref(t) : t \in all}
        opts == {OptionTy(t) : t \in all}
        boxed_slices == {BoxSlice(t) : t \in sliceable}
        opt_boxed_slices == {OptionTy(BoxSlice(t)) : t \in sliceable}
    IN  all \cup refs \cup opts \cup boxed_slices \cup opt_boxed_slices \cup {js_value}

\* NestedTyFinder::visit_type: result, NoTy for Option::None
RECURSIVE NestedTyFinder(_)
NestedTyFinder(t) ==
    CASE t.k \in {"Option", "Box"} -> NestedTyFinder(t.a[1])
      [] t.k = "Named" -> t
      [] t.k \in {"JsValue", "Prim", "String", "Path"} -> NoTy
      [] OTHER -> t

\* WasmAbify::visit_type_mut
WasmAbify_visit_type(wasm_abi_types, t) ==
    IF IsRefTraitObject(t) THEN t
    ELSE IF t \notin wasm_abi_types THEN js_value ELSE t

\* WasmAbify::visit_return_type_mut without the branch for references
WasmAbify_visit_return_type_referring(wasm_abi_types, ty) ==
    WasmAbify_visit_type(wasm_abi_types, ty)

\* WasmAbify::visit_return_type_mut without its closing self.visit_type_mut(ty)
WasmAbify_visit_return_type_unvisited(wasm_abi_types, ty) ==
    IF IsRefTraitObject(NestedTyFinder(ty)) THEN js_value ELSE ty

\* WasmAbify::visit_return_type_mut, on a ReturnType::Type
WasmAbify_visit_return_type(wasm_abi_types, ty) ==
    IF IsRefTraitObject(NestedTyFinder(ty)) THEN js_value
    ELSE WasmAbify_visit_type(wasm_abi_types, ty)

\* the default visit_foreign_item_mut of WasmAbify
WasmAbify_visit_foreign_item(wasm_abi_types, fi) ==
    CASE fi.kind = "Fn" ->
            [fi EXCEPT
                !.inputs = [i \in 1..Len(fi.inputs) |->
                              PatType(fi.inputs[i].pat,
                                      WasmAbify_visit_type(wasm_abi_types, fi.inputs[i].ty))],
                !.output = IF fi.output = NoTy THEN NoTy
                           ELSE WasmAbify_visit_return_type(wasm_abi_types, fi.output)]
      [] fi.kind = "Static" ->
            [fi EXCEPT !.ty = WasmAbify_visit_type(wasm_abi_types, fi.ty)]
      [] OTHER -> fi

-----------------------------------------------------------------------------
(* The source units the model is run on *)

\* members and free declarations of a unit of NameUnits
MaxItems == 3

\* nesting depth of the type annotations of TypeUnits
MaxDepth == 2

\* members of the class of ClassUnits
MaxMembers == 3

idA == <<"A">>
idB == <<"B">>
idT == <<"T">>
idU == <<"U">>
idBar == <<"B","a","r">>
idFoo == <<"F","o","o">>
idF == <<"f">>
idF1 == <<"f","_","1">>
idM == <<"m">>
idP == <<"p">>
idX == <<"x">>
idBaz == <<"b","a","z">>

TsNumber == TsKeyword("number")
TsString == TsKeyword("string")
TsBoolean == TsKeyword("boolean")
TsVoid == TsKeyword("void")
TsUndefined == TsKeyword("undefined")

Exported(decl) == ModuleItem("ExportDecl", decl, <<>>)

\* a public instance method  key<type_params>(params): return_type
MethodMember(key, accessibility, is_static, kind, function) ==
    Member("Method", key, accessibility, is_static, kind, function, NoAnn, FALSE, <<>>)

ConstructorMember(accessibility, params) ==
    Member("Constructor", ConstructorSym, accessibility, FALSE, "Method",
           Function(params, <<>>, NoAnn), NoAnn, FALSE, <<>>)

ClassPropMember(key, accessibility, is_static, is_optional, type_ann) ==
    Member("ClassProp", key, accessibility, is_static, "Method", NoFunction, type_ann,
           is_optional, <<>>)

TypeElement(kind, key, function, type_ann, is_optional) ==
    Member(kind, key, "None", FALSE, "Method", function, type_ann, is_optional, <<>>)

ClassDecl(sym, type_params, members) ==
    Decl("Class", sym, type_params, <<>>, members, NoFunction, <<>>, FALSE)

InterfaceDecl(sym, type_params, members) ==
    Decl("TsInterface", sym, type_params, <<>>, members, NoFunction, <<>>, FALSE)

TypeAliasDecl(sym, type_params, members, is_lit) ==
    Decl("TsTypeAlias", sym, type_params, <<>>, members, NoFunction, <<>>, is_lit)

FnDecl(sym, function) == Decl("Fn", sym, <<>>, <<>>, <<>>, function, <<>>, FALSE)

VarDecl(decls) == Decl("Var", <<>>, <<>>, <<>>, <<>>, NoFunction, decls, FALSE)

(* NameUnits: up to MaxItems methods, functions and variables named f or f_1,
   of the classes A and B, of the interface A and of the module.  A unit is
   drawn as a sequence of shapes <<kind, owner, names>>. *)

RawNames == {idF, idF1}

PlainMethod(key) == MethodMember(key, "None", FALSE, "Method", NoFunction)

PlainMethodSignature(key) == TypeElement("TsMethodSignature", key, NoFunction, NoAnn, FALSE)

\* the shapes of the declarations that lower to k functions or statics
NameShapes(k) ==
    (IF k = 1 THEN {<<"Fn", <<>>, <<idF>> >>, <<"Var", <<>>, <<idF>> >>} ELSE {})
    \cup {<<"Class", o, ns>> : o \in {idA, idB}, ns \in [1..k -> RawNames]}
    \cup {<<"TsInterface", idA, ns>> : ns \in [1..k -> RawNames]}

\* the sequences of shapes that lower to exactly n functions or statics
RECURSIVE NameUnitShapes(_)
NameUnitShapes(n) ==
    IF n = 0 THEN {<<>>}
    ELSE UNION {{Append(u, d) : u \in NameUnitShapes(n - k), d \in NameShapes(k)} :
                   k \in 1..n}

NameDecl(shape) ==
    CASE shape[1] = "Fn" -> FnDecl(shape[3][1], NoFunction)
      [] shape[1] = "Var" -> VarDecl(<<Param(shape[3][1], FALSE, TsNumber)>>)
      [] shape[1] = "Class" ->
            ClassDecl(shape[2], <<>>, [i \in 1..Len(shape[3]) |-> PlainMethod(shape[3][i])])
      [] shape[1] = "TsInterface" ->
            InterfaceDecl(shape[2], <<>>,
                          [i \in 1..Len(shape[3]) |-> PlainMethodSignature(shape[3][i])])

NameUnit(shapes) == [i \in 1..Len(shapes) |-> Exported(NameDecl(shapes[i]))]

(* TypeUnits: one declaration with one type annotation, nested to MaxDepth. *)

TsLeaves ==
    {TsNumber, TsThis, TsRef(idT, <<>>), TsRef(idU, <<>>), TsRef(idA, <<>>),
     TsRef(idBar, <<>>)}

TsWrap(t) ==
    {TsArray(t), TsUnion(<<t, TsUndefined>>), TsParen(t), TsFn(<<t>>, <<>>),
     TsTuple(<<t, TsNumber>>)}

RECURSIVE TsTypesUpTo(_)
TsTypesUpTo(d) ==
    IF d = 0 THEN TsLeaves
    ELSE LET inner == TsTypesUpTo(d - 1)
         IN  inner \cup UNION {TsWrap(t) : t \in inner}

\* the places of a declaration that carry an annotation
TypeSlots ==
    {"fn param", "fn return", "var", "method param", "method return",
     "static method return", "constructor param", "class prop", "signature param",
     "signature return", "property signature", "alias property"}

\* the declaration that carries the annotation ty in the place slot
TypedDecl(slot, ty) ==
    LET takes(optional) == Function(<<Param(idX, optional, ty)>>, <<idU>>, NoAnn)
        returns == Function(<<>>, <<idU>>, ty)
        signature(fn) == TypeElement("TsMethodSignature", idM, fn, NoAnn, FALSE)
        property(optional) == TypeElement("TsPropertySignature", idP, NoFunction, ty, optional)
    IN  CASE slot = "fn param" -> FnDecl(idF, takes(TRUE))
          [] slot = "fn return" -> FnDecl(idF, returns)
          [] slot = "var" -> VarDecl(<<Param(idX, FALSE, ty)>>)
          [] slot = "method param" ->
                ClassDecl(idA, <<idT>>, <<MethodMember(idM, "None", FALSE, "Method", takes(FALSE))>>)
          [] slot = "method return" ->
                ClassDecl(idA, <<idT>>, <<MethodMember(idM, "None", FALSE, "Method", returns)>>)
          [] slot = "static method return" ->
                ClassDecl(idA, <<idT>>, <<MethodMember(idM, "None", TRUE, "Method", returns)>>)
          [] slot = "constructor param" ->
                ClassDecl(idA, <<idT>>, <<ConstructorMember("None", <<Param(idX, FALSE, ty)>>)>>)
          [] slot = "class prop" ->
                ClassDecl(idA, <<idT>>, <<ClassPropMember(idP, "None", FALSE, FALSE, ty)>>)
          [] slot = "signature param" -> InterfaceDecl(idA, <<idT>>, <<signature(takes(FALSE))>>)
          [] slot = "signature return" -> InterfaceDecl(idA, <<idT>>, <<signature(returns)>>)
          [] slot = "property signature" -> InterfaceDecl(idA, <<idT>>, <<property(TRUE)>>)
          [] slot = "alias property" -> TypeAliasDecl(idA, <<idT>>, <<property(FALSE)>>, TRUE)

(* ClassUnits: the class Foo with up to MaxMembers of a few members. *)

ClassMembers ==
    <<ConstructorMember("None", <<Param(idX, FALSE, TsNumber)>>),
      MethodMember(idBar, "None", FALSE, "Method", Function(<<>>, <<>>, TsString)),
      MethodMember(idBaz, "Public", FALSE, "Method",
                   Function(<<Param(idX, FALSE, TsBoolean)>>, <<>>, TsNumber)),
      MethodMember(idBar, "Private", FALSE, "Method", Function(<<>>, <<>>, TsString)),
      MethodMember(idBar, "Protected", FALSE, "Method", Function(<<>>, <<>>, TsNumber)),
      MethodMember(idBar, "None", TRUE, "Method", Function(<<>>, <<>>, TsString))>>

ClassUnit(ms) ==
    <<Exported(ClassDecl(idFoo, <<>>, [i \in 1..Len(ms) |-> ClassMembers[ms[i]]]))>>

(* OtherUnits: a type the mapper stops at, an accessor, a function over strings,
   a default export, a declaration that is not exported. *)

OtherUnits ==
    {<<Exported(VarDecl(<<Param(idX, FALSE, TsKeyword("bigint"))>>))>>,
     <<Exported(ClassDecl(idFoo, <<>>,
           <<MethodMember(idBar, "None", FALSE, "Getter", Function(<<>>, <<>>, TsString))>>))>>,
     <<Exported(FnDecl(idF, Function(<<Param(idX, FALSE, TsArray(TsString))>>, <<>>, TsString)))>>,
     <<ModuleItem("StmtDecl", FnDecl(idF, NoFunction), <<>>),
       ModuleItem("ExportDefaultExpr", FnDecl(<<>>, NoFunction), idF)>>,
     <<ModuleItem("StmtDecl", FnDecl(idF, NoFunction), <<>>)>>}

(* Accessor units: the class Foo, the interface A and the literal alias A with
   one accessor or one property, static or not. *)

AccessorMembers ==
    {MethodMember(idBar, "None", s, "Getter", Function(<<>>, <<>>, TsString)) :
         s \in BOOLEAN}
    \cup {MethodMember(idBar, "None", s, "Setter",
                       Function(<<Param(idX, FALSE, TsString)>>, <<>>, NoAnn)) : s \in BOOLEAN}
    \cup {ClassPropMember(idP, "None", s, FALSE, TsNumber) : s \in BOOLEAN}

AccessorElements ==
    {TypeElement("TsGetterSignature", idBar, NoFunction, TsString, FALSE),
     TypeElement("TsSetterSignature", idBar,
                 Function(<<Param(idX, FALSE, TsString)>>, <<>>, NoAnn), NoAnn, FALSE)}

\* the declaration of kind "Class", "TsInterface" or "TsTypeAlias" with member m
AccessorDecl(kind, m) ==
    CASE kind = "Class" -> ClassDecl(idFoo, <<>>, <<m>>)
      [] kind = "TsInterface" -> InterfaceDecl(idA, <<>>, <<m>>)
      [] kind = "TsTypeAlias" -> TypeAliasDecl(idA, <<>>, <<m>>, TRUE)

(* Cased units: a function, a variable, a class and a method named fooID, which
   sanitize_sym writes fooId. *)

idFooID == <<"f","o","o","I","D">>

CasedDecls ==
    {FnDecl(idFooID, NoFunction),
     VarDecl(<<Param(idFooID, FALSE, TsNumber)>>),
     ClassDecl(idFooID, <<>>, <<PlainMethod(idFooID)>>),
     InterfaceDecl(idA, <<>>,
         <<TypeElement("TsPropertySignature", idFooID, NoFunction, TsNumber, FALSE)>>)}

(* Namespace units: namespaces N1 { N2 { .. } } nested to MaxNest, each with
   one declaration in its body; the outer one exported or not, the inner ones
   exported or not.  Then a namespace with a dotted name, and units with an
   `export as namespace` statement. *)

\* nesting depth of the namespaces of the namespace units
MaxNest == 3

idG == <<"g">>
idN == <<"N">>

NsName(k) == idN \o to_string(k)

NsDecls ==
    {FnDecl(idG, Function(<<>>, <<>>, TsBoolean)),
     VarDecl(<<Param(idX, FALSE, TsNumber)>>),
     ClassDecl(idFoo, <<>>, <<PlainMethod(idBar)>>),
     InterfaceDecl(idA, <<>>, <<PlainMethodSignature(idF), PlainMethodSignature(idF)>>)}

\* the namespace Nk of d, as a statement of kind kind; the namespaces in it are
\* statements of kind inner
RECURSIVE NsItem(_, _, _, _, _)
NsItem(k, d, decl, kind, inner) ==
    ModuleItem(kind,
               TsModuleDecl(NsName(k),
                            <<ModuleItem("StmtDecl", decl, <<>>)>>
                            \o (IF k < d THEN <<NsItem(k + 1, d, decl, inner, inner)>> ELSE <<>>),
                            TRUE),
               <<>>)

NamespaceExport(sym) == ModuleItem("TsNamespaceExport", FnDecl(<<>>, NoFunction), sym)

\* the unit of shape "nested", "dotted" or "enclosed"
NamespaceUnit(shape, d, decl, kind, inner) ==
    CASE shape = "nested" -> <<NsItem(1, d, decl, kind, inner)>>
      [] shape = "dotted" ->
            <<Exported(TsModuleDecl(idN, <<NsItem(1, d, decl, kind, inner)>>, FALSE))>>
      [] shape = "enclosed" ->
            <<NamespaceExport(idBar), Exported(decl), NsItem(1, d, decl, "ExportDecl", inner)>>

(* Default units: a declaration named f, exported or not, with `export default
   f` after or before it, alone, beside a function g or beside an overload. *)

Unexported(decl) == ModuleItem("StmtDecl", decl, <<>>)

ExportDefault(sym) == ModuleItem("ExportDefaultExpr", FnDecl(<<>>, NoFunction), sym)

DefaultDecls ==
    {FnDecl(idF, NoFunction),
     VarDecl(<<Param(idF, FALSE, TsNumber)>>),
     ClassDecl(idF, <<>>, <<PlainMethod(idM)>>),
     InterfaceDecl(idF, <<>>, <<PlainMethodSignature(idM)>>)}

DefaultShapes == {"after", "before", "exported", "beside g", "beside f", "overload"}

DefaultUnit(shape, d) ==
    CASE shape = "after" -> <<Unexported(d), ExportDefault(idF)>>
      [] shape = "before" -> <<ExportDefault(idF), Unexported(d)>>
      [] shape = "exported" -> <<Exported(d), ExportDefault(idF)>>
      [] shape = "beside g" ->
            <<Unexported(d), Unexported(FnDecl(idG, NoFunction)), ExportDefault(idF)>>
      [] shape = "beside f" ->
            <<Unexported(d), Exported(FnDecl(idF, NoFunction)), ExportDefault(idF)>>
      [] shape = "overload" ->
            <<Unexported(d),
              Unexported(FnDecl(idF, Function(<<Param(idX, FALSE, TsNumber)>>, <<>>, NoAnn))),
              ExportDefault(idF)>>

(* Mapper units: a variable, a function parameter, a function return type and a
   method parameter annotated with a union, with a keyword or a type form the
   mapper has no mapping for, alone, inside an array or as the third member
   of a union, or with a form it maps to JsValue. *)

TsNull == TsKeyword("null")

UnionTypes ==
    UNION {{TsUnion(<<t, n>>), TsUnion(<<n, t>>), TsUnion(<<t, TsString>>),
            TsUnion(<<t, TsString, n>>), TsUnion(<<t>>)} :
              t \in {TsNumber, TsRef(idA, <<>>)}, n \in {TsUndefined, TsNull}}
    \cup {TsUnion(<<TsUndefined, TsNull>>), TsUnion(<<TsRef(idBar, <<>>), TsNumber, TsString>>)}

UnmappedTypes ==
    {TsKeyword(k) : k \in TsTodoKeywords}
    \cup {TsT(k, <<>>, <<>>, <<>>) : k \in TsTodoKinds \cup TsOpaqueKinds}

MapperTypes ==
    UnionTypes \cup UnmappedTypes \cup {TsArray(t) : t \in UnmappedTypes}
    \cup {TsUnion(<<TsNumber, TsString, t>>) : t \in UnmappedTypes}
    \cup {TsIntersection(<<>>)}

(* Literal units: the alias  type A = { .. }  of one member that is no plain
   property, alone or before or behind the plain property p: number. *)

SignatureElements ==
    {TypeElement("TsCallSignatureDecl", <<>>, NoFunction, NoAnn, FALSE),
     TypeElement("TsConstructSignatureDecl", <<>>, NoFunction, NoAnn, FALSE),
     TypeElement("TsIndexSignature", <<>>, NoFunction, TsString, FALSE),
     TypeElement("TsPropertySignature", idBar,
                 Function(<<Param(idX, FALSE, TsString)>>, <<>>, NoAnn), TsString, FALSE)}

PlainProperty == TypeElement("TsPropertySignature", idP, NoFunction, TsNumber, FALSE)

LiteralShapes == {"alone", "before", "behind"}

LiteralUnit(shape, e) ==
    <<Exported(TypeAliasDecl(idA, <<>>,
          CASE shape = "alone" -> <<e>>
            [] shape = "before" -> <<e, PlainProperty>>
            [] shape = "behind" -> <<PlainProperty, e>>,
          TRUE))>>

(* Constructor units: the class Foo of one or two constructors, of the key
   `constructor` or of the key `bar`. *)

KeyedConstructor(key, params) ==
    Member("Constructor", key, "None", FALSE, "Method", Function(params, <<>>, NoAnn),
           NoAnn, FALSE, <<>>)

Constructors ==
    {KeyedConstructor(ConstructorSym, <<>>),
     KeyedConstructor(ConstructorSym, <<Param(idX, FALSE, TsNumber)>>),
     KeyedConstructor(idBar, <<>>)}

(* Void units: void, alone or inside another type, in every place of a
   declaration that carries an annotation, and as what a getter returns. *)

VoidTypes ==
    {TsVoid, TsArray(TsVoid), TsUnion(<<TsVoid, TsUndefined>>), TsParen(TsVoid),
     TsTuple(<<TsVoid, TsNumber>>), TsFn(<<TsVoid>>, <<>>), TsOptional(TsVoid)}

VoidGetters ==
    {ClassDecl(idFoo, <<>>,
         <<MethodMember(idBar, "None", s, "Getter", Function(<<>>, <<>>, ty))>>) :
         s \in BOOLEAN, ty \in {TsVoid, TsArray(TsVoid)}}
    \cup {InterfaceDecl(idA, <<>>,
              <<TypeElement("TsGetterSignature", idBar, NoFunction, ty, FALSE)>>) :
              ty \in {TsVoid, TsArray(TsVoid)}}

(* Import units: one import of f from a path of up to MaxSegments segments
   joined with `/`. *)

MaxSegments == 3

idJs == <<"b", ".", "j", "s">>

Segments == {Dot, DotDot, idA, idJs}

PathsOfSegments == UNION {[1..n -> Segments] : n \in 1..MaxSegments}

\* the segments joined with `/`
RECURSIVE JoinPath(_)
JoinPath(segs) ==
    IF Len(segs) = 1 THEN segs[1] ELSE segs[1] \o <<"/">> \o JoinPath(Tail(segs))

ImportOf(specifiers, segs) == <<ImportDecl(specifiers, JoinPath(segs))>>

(* Specifier units: one import from ./A, or one named export from ./A or of
   the unit itself, with up to MaxSpecifiers specifiers; and the import of X
   as Y before a function over Y. *)

MaxSpecifiers == 2

idY == <<"Y">>

ImportSpecifiers ==
    {ImportSpecifier("Named", idX, <<>>), ImportSpecifier("Named", idY, <<idX>>),
     ImportSpecifier("Default", idBar, <<>>), ImportSpecifier("Namespace", idBaz, <<>>)}

ExportSpecifiers ==
    {ExportSpecifier("Named", idX, <<>>), ExportSpecifier("Named", idX, <<idY>>),
     ExportSpecifier("Default", <<>>, <<idBar>>), ExportSpecifier("Namespace", <<>>, <<idBaz>>)}

SiblingPath == JoinPath(<<Dot, idA>>)

\* import { X as Y } from "./A"; export function f(x: Y): Y
RenamedImportUnit ==
    <<ImportDecl(<<ImportSpecifier("Named", idY, <<idX>>)>>, SiblingPath),
      Exported(FnDecl(idF, Function(<<Param(idX, FALSE, TsRef(idY, <<>>))>>, <<>>,
                                    TsRef(idY, <<>>))))>>

(* Import type units: the import of f from a path, before the variable x of
   the type import(path).fooID. *)

ImportTypeUnit(segs) ==
    ImportOf(<<ImportSpecifier("Named", idF, <<>>)>>, segs)
    \o <<Exported(VarDecl(<<Param(idX, FALSE, TsImport(JoinPath(segs), idFooID))>>))>>

(* Qualified units: a namespace N declaring an opaque type T, and a function
   whose parameter and return type are the qualified name N.T. *)
QualifiedDecls == {ClassDecl(idT, <<>>, <<>>), InterfaceDecl(idT, <<>>, <<>>)}

QualifiedUnit(decl, kind) ==
    <<Exported(TsModuleDecl(idN, <<ModuleItem(kind, decl, <<>>)>>, TRUE)),
      Exported(FnDecl(idF, Function(<<Param(idX, FALSE, TsQualified(<<idN>>, decl.sym))>>, <<>>,
                                    TsQualified(<<idN>>, decl.sym))))>>

(* Owner units: a class, an interface or a type literal with a method and a
   property, under a name of its own or under a name of one of the catalogs. *)
OwnerNames == {idFoo} \cup KNOWN_STRING_TYPES \cup KNOWN_WEB_SYS_TYPES \cup KNOWN_JS_SYS_TYPES

OwnerDecls(sym) ==
    {ClassDecl(sym, <<>>, <<PlainMethod(idM), ClassPropMember(idP, "None", FALSE, FALSE, TsNumber)>>),
     InterfaceDecl(sym, <<>>, <<PlainMethodSignature(idM), PlainProperty>>),
     TypeAliasDecl(sym, <<>>, <<PlainMethodSignature(idM), PlainProperty>>, TRUE)}

MapperSlots == {"var", "fn param", "fn return", "method param"}

-----------------------------------------------------------------------------
(* main.rs: the passes over one source unit *)

Init ==
    /\ \/ \E n \in 1..MaxItems : \E shapes \in NameUnitShapes(n) : unit = NameUnit(shapes)
       \/ \E slot \in TypeSlots : \E ty \in TsTypesUpTo(MaxDepth) :
              unit = <<Exported(TypedDecl(slot, ty))>>
       \/ \E ms \in SeqsUpTo(1..Len(ClassMembers), MaxMembers) : unit = ClassUnit(ms)
       \/ unit \in OtherUnits
       \/ \E m \in AccessorMembers : unit = <<Exported(AccessorDecl("Class", m))>>
       \/ \E kind \in {"TsInterface", "TsTypeAlias"} : \E e \in AccessorElements :
              unit = <<Exported(AccessorDecl(kind, e))>>
       \/ \E decl \in CasedDecls : unit = <<Exported(decl)>>
       \/ \E d \in 1..MaxNest : \E decl \in NsDecls :
              \E kind, inner \in {"ExportDecl", "StmtDecl"} :
                  unit = NamespaceUnit("nested", d, decl, kind, inner)
       \/ \E shape \in {"dotted", "enclosed"} : \E decl \in NsDecls :
              unit = NamespaceUnit(shape, IF shape = "dotted" THEN 1 ELSE 2, decl,
                                   "StmtDecl", "StmtDecl")
       \/ \E shape \in DefaultShapes : \E d \in DefaultDecls : unit = DefaultUnit(shape, d)
       \/ \E slot \in MapperSlots : \E ty \in MapperTypes :
              unit = <<Exported(TypedDecl(slot, ty))>>
       \/ \E shape \in LiteralShapes : \E e \in SignatureElements : unit = LiteralUnit(shape, e)
       \/ \E slot \in TypeSlots : \E ty \in VoidTypes : unit = <<Exported(TypedDecl(slot, ty))>>
       \/ \E decl \in VoidGetters : unit = <<Exported(decl)>>
       \/ \E c \in Constructors : unit = <<Exported(ClassDecl(idFoo, <<>>, <<c>>))>>
       \/ \E segs \in PathsOfSegments :
              unit = ImportOf(<<ImportSpecifier("Named", idF, <<>>)>>, segs)
       \/ \E specs \in SeqsUpTo(ImportSpecifiers, MaxSpecifiers) :
              unit = <<ImportDecl(specs, SiblingPath)>>
       \/ \E specs \in SeqsUpTo(ExportSpecifiers, MaxSpecifiers) :
              \E src \in {<<>>, <<SiblingPath>>} : unit = <<NamedExport(specs, src)>>
       \/ unit = RenamedImportUnit
       \/ \E segs \in PathsOfSegments : unit = ImportTypeUnit(segs)
       \/ \E decl \in QualifiedDecls : \E kind \in {"StmtDecl", "ExportDecl"} :
              unit = QualifiedUnit(decl, kind)
       \/ \E sym \in OwnerNames : \E decl \in OwnerDecls(sym) : unit = <<Exported(decl)>>
       \/ \E c, d \in Constructors : unit = <<Exported(ClassDecl(idFoo, <<>>, <<c, d>>))>>
    /\ pc = "lower"
    /\ uses = <<>>
    /\ lowered = <<>>
    /\ mods = <<>>
    /\ diagnostics = <<>>
    /\ resolved = <<>>
    /\ cleaned = <<>>
    /\ pubs = {}
    /\ legal = <<>>

\* the items of the extern block module_as_binding(body, None) returns, from
\* foreign_items as they are when its loop ends
module_extern_items(body, foreign_items) ==
    LET ns == enclosing_ns(body)
        deduped == ModuleBindingsCleaner_pass(foreign_items)
    IN  IF ns = <<>> THEN deduped
        ELSE ApplyNamespace(ns[1], <<ModBlock(<<>>, deduped)>>)[1].items

\* the foreign items of all the blocks
ModItems(blocks) == Flatten([b \in 1..Len(blocks) |-> blocks[b].items])

\* imports_to_uses, and module_as_binding up to its dedupe pass: every
\* declaration is lowered, and every namespace with ts_module_to_binding
Lower ==
    /\ pc = "lower"
    /\ ~imports_to_uses_panics(unit)
    /\ ~module_panics(unit)
    /\ uses' = imports_to_uses(unit)
    /\ \E binding \in {module_as_binding(unit, <<>>)} :
           /\ lowered' = binding.foreign_items
           /\ mods' = binding.mods
    /\ diagnostics' = module_eprintln(unit)
    /\ pc' = "dedupe"
    /\ UNCHANGED <<unit, resolved, cleaned, pubs, legal>>

\* a todo!(), assert! or unwrap() of imports_to_uses or of the lowering ends
\* the run
LowerPanic ==
    /\ pc = "lower"
    /\ imports_to_uses_panics(unit) \/ module_panics(unit)
    /\ pc' = "lower_panic"
    /\ UNCHANGED <<unit, uses, diagnostics, lowered, mods, resolved, cleaned, pubs, legal>>

\* the rest of module_as_binding: the ModuleBindingsCleaner pass, and
\* ApplyNamespace over all the items when the unit has an enclosing namespace
Dedupe ==
    /\ pc = "dedupe"
    /\ resolved' = module_extern_items(unit, lowered)
    /\ LET ns == enclosing_ns(unit)
       IN  mods' = IF ns = <<>> THEN mods ELSE ApplyNamespace(ns[1], mods)
    /\ pc' = "clean"
    /\ UNCHANGED <<unit, uses, diagnostics, lowered, cleaned, pubs, legal>>

\* main.rs: cleaner.visit_item_mut on every item
Clean ==
    /\ pc = "clean"
    /\ \A i \in 1..Len(resolved) : ~merge_attrs_panics(resolved[i])
    /\ \A i \in 1..Len(ModItems(mods)) : ~merge_attrs_panics(ModItems(mods)[i])
    /\ cleaned' = [i \in 1..Len(resolved) |-> BindingsCleaner_visit_foreign_item(resolved[i])]
    /\ mods' = [b \in 1..Len(mods) |->
                   ModBlock(mods[b].path,
                            [i \in 1..Len(mods[b].items) |->
                                BindingsCleaner_visit_foreign_item(mods[b].items[i])])]
    /\ pc' = "pubs"
    /\ UNCHANGED <<unit, uses, diagnostics, lowered, resolved, pubs, legal>>

\* the unwrap() of merge_attrs ends the run
CleanPanic ==
    /\ pc = "clean"
    /\ \E i \in 1..Len(resolved \o ModItems(mods)) :
          merge_attrs_panics((resolved \o ModItems(mods))[i])
    /\ pc' = "clean_panic"
    /\ UNCHANGED <<unit, uses, diagnostics, lowered, mods, resolved, cleaned, pubs, legal>>

\* main.rs: pubs.visit_item on every item, pubs.visit_item_use on every use
Collect ==
    /\ pc = "pubs"
    /\ pubs' = CollectPubs(cleaned) \cup {ModItems(mods)[i].ident : i \in 1..Len(ModItems(mods))}
                \cup UNION {CollectPubs_visit_use_tree(uses[i]) : i \in 1..Len(uses)}
    /\ pc' = "abify"
    /\ UNCHANGED <<unit, uses, diagnostics, lowered, mods, resolved, cleaned, legal>>

\* main.rs: abify.visit_item_mut on every item
Abify ==
    /\ pc = "abify"
    /\ legal' = [i \in 1..Len(cleaned) |->
                    WasmAbify_visit_foreign_item(wasm_abi_set(pubs), cleaned[i])]
    /\ mods' = [b \in 1..Len(mods) |->
                   ModBlock(mods[b].path,
                            [i \in 1..Len(mods[b].items) |->
                                WasmAbify_visit_foreign_item(wasm_abi_set(pubs),
                                                             mods[b].items[i])])]
    /\ pc' = "done"
    /\ UNCHANGED <<unit, uses, diagnostics, lowered, resolved, cleaned, pubs>>

Next == Lower \/ LowerPanic \/ Dedupe \/ Clean \/ CleanPanic \/ Collect \/ Abify

Spec == Init /\ [][Next]_vars

HasLowered == pc \notin {"lower", "lower_panic"}

HasResolved == HasLowered /\ pc # "dedupe"

HasLegal == pc = "done"

-----------------------------------------------------------------------------
(* Where the items of a unit come from *)

NoMember == Member("None", <<>>, "None", FALSE, "Method", NoFunction, NoAnn, FALSE, <<>>)

\* role "type" is the opaque type of a declaration, "member" a member of a class,
\* an interface or a type literal, "free" a function or a variable of the module
Origin(role, decl, member) == [role |-> role, decl |-> decl, member |-> member]

\* the members that are bound: public ones with an identifier key
BindsMember(decl, m) ==
    IF decl.kind = "Class"
    THEN /\ m.kind \in {"Constructor", "Method", "ClassProp"}
         /\ m.accessibility \notin {"Private", "Protected"}
         /\ m.key # <<>>
    ELSE /\ m.kind \in {"TsPropertySignature", "TsGetterSignature", "TsSetterSignature",
                        "TsMethodSignature"}
         /\ m.key # <<>>

DeclOrigins(decl) ==
    IF decl.kind = "TsModule" THEN <<>>
    ELSE IF decl.kind \in {"Fn", "Var"}
    THEN <<Origin("free", decl, NoMember)>>
    ELSE LET Binds(m) == BindsMember(decl, m)
             bound == IF decl.kind = "TsTypeAlias" /\ ~decl.is_lit THEN <<>>
                      ELSE SelectSeq(decl.members, Binds)
         IN  <<Origin("type", decl, NoMember)>>
             \o [i \in 1..Len(bound) |-> Origin("member", decl, bound[i])]

\* one origin for every item of the unit's extern block, in the block's order
ItemOrigins ==
    LET decls == lowered_decls(unit)
    IN  Flatten([i \in 1..Len(decls) |-> DeclOrigins(decls[i])])

\* the owner of an item: the raw name of its class, interface or alias, and <<>>
\* for the functions and statics of the module
OwnerOf(o) == IF o.role = "member" THEN o.decl.sym ELSE <<>>

RawNameOf(o) ==
    CASE o.role = "member" -> o.member.key
      [] o.decl.kind = "Var" -> o.decl.decls[1].sym
      [] OTHER -> o.decl.sym

\* the type parameters in scope of an item
ScopeOf(o) ==
    Range(o.decl.type_params) \cup Range(o.decl.function.type_params)
    \cup Range(o.member.type_params) \cup Range(o.member.function.type_params)

\* the items j before item i that have the owner of item i
EarlierOfOwner(o, i) ==
    {j \in 1..(i - 1) : o[j].role # "type" /\ OwnerOf(o[j]) = OwnerOf(o[i])}

\* t and every type t is built from
RECURSIVE TypesWithin(_)
TypesWithin(t) == {t} \cup UNION {TypesWithin(t.a[i]) : i \in 1..Len(t.a)}

\* the parameter types, the return type and the static type of an item
SignatureTypes(fi) ==
    ({fi.inputs[i].ty : i \in 1..Len(fi.inputs)} \cup {fi.output, fi.ty}) \ {NoTy}

-----------------------------------------------------------------------------
(* C1: after ABI legalization every parameter type and every return type of
   every extern function, and the type of every extern static, is a member of
   the set wasm_abi_set computes from the names the unit declares, or is a
   reference to a callable. *)
C1_AbiClosure ==
    HasLegal =>
        \A i \in 1..Len(legal) :
            \A t \in SignatureTypes(legal[i]) :
                t \in wasm_abi_set(pubs) \/ IsRefTraitObject(t)

\* a returned boxed slice outside the set has been replaced
C1_Witness ==
    /\ HasLegal
    /\ \E i \in 1..Len(legal) :
          /\ cleaned[i].output.k = "Box"
          /\ cleaned[i].output \notin wasm_abi_set(pubs)
          /\ legal[i].output = js_value

(* C2: after collision resolution any two extern functions or statics of one
   owner (the same class, interface or alias, or both of the module) have
   different names. *)
C2_DistinctNames ==
    HasResolved =>
        LET o == ItemOrigins
        IN  /\ Len(o) = Len(resolved)
            /\ \A i \in 1..Len(resolved) :
                  o[i].role # "type" =>
                      \A j \in EarlierOfOwner(o, i) : resolved[j].ident # resolved[i].ident

\* three methods f of one owner, from two declarations, with three names
C2_Witness ==
    /\ HasResolved
    /\ Len(lowered_decls(unit)) = 2
    /\ \E i \in 1..Len(resolved) :
          /\ ItemOrigins[i].role = "member"
          /\ Cardinality(EarlierOfOwner(ItemOrigins, i)) = 2
          /\ \A j \in EarlierOfOwner(ItemOrigins, i) : RawNameOf(ItemOrigins[j]) = idF
          /\ RawNameOf(ItemOrigins[i]) = idF

\* the items that are named after their raw name: not constructors or accessors
NamedAfterKey(o) ==
    \/ o.role = "free"
    \/ /\ o.role = "member"
       /\ o.member.kind \in {"Method", "ClassProp", "TsMethodSignature", "TsPropertySignature"}
       /\ o.member.method_kind = "Method"

Suffixed(name, k) == name \o <<"_">> \o to_string(k)

\* no raw name of the unit reads as another of its raw names with a suffix _k
PlainRawNames(o) ==
    \A i, j \in 1..Len(o) :
        \A k \in 1..Len(o) : RawNameOf(o[i]) # Suffixed(RawNameOf(o[j]), k)

\* the earlier items of the owner of item i that have its raw name
EarlierOfName(o, i) ==
    {j \in EarlierOfOwner(o, i) : NamedAfterKey(o[j]) /\ RawNameOf(o[j]) = RawNameOf(o[i])}

(* C3: of the N items with one raw name under one owner the first keeps the
   sanitized name and the others are named name_1 .. name_{N-1} in the order
   they are met, also for the members of interfaces and of owners declared
   several times.  Stated for units none of whose raw names has the form of a
   suffixed name. *)
C3_Numbering ==
    (HasResolved /\ PlainRawNames(ItemOrigins)) =>
        LET o == ItemOrigins
        IN  \A i \in 1..Len(resolved) :
                NamedAfterKey(o[i]) =>
                    LET k == Cardinality(EarlierOfName(o, i))
                        name == sanitize_sym(RawNameOf(o[i]))
                    IN  resolved[i].ident = IF k = 0 THEN name ELSE Suffixed(name, k)

(* C4, as claimed: the first item that carries a sanitized name under an owner
   keeps that name, whatever precedes it. *)
C4_FirstNeverRenamed ==
    HasResolved =>
        LET o == ItemOrigins
        IN  \A i \in 1..Len(resolved) :
                (NamedAfterKey(o[i]) /\ EarlierOfName(o, i) = {}) =>
                    resolved[i].ident = sanitize_sym(RawNameOf(o[i]))

\* the least k >= 1 for which name_k is not in taken
RECURSIVE LeastFree(_, _, _)
LeastFree(taken, name, k) ==
    IF Suffixed(name, k) \in taken THEN LeastFree(taken, name, k + 1) ELSE k

(* C4, amended: the resolver leaves the name of an item unchanged exactly when
   no earlier item of its owner left the resolver with that name, kept or
   generated; otherwise the item is named name_k for the least k >= 1 that no
   earlier item of the owner left with. *)
C4_KeptIffFree ==
    HasResolved =>
        LET o == ItemOrigins
        IN  \A i \in 1..Len(resolved) :
                o[i].role # "type" =>
                    LET taken == {resolved[j].ident : j \in EarlierOfOwner(o, i)}
                        name == lowered[i].ident
                    IN  resolved[i].ident =
                            IF name \in taken
                            THEN Suffixed(name, LeastFree(taken, name, 1))
                            ELSE name

\* the first item that carries f_1 is renamed: f_1 was generated before it
C4_Witness ==
    /\ HasResolved
    /\ \E i \in 1..Len(resolved) :
          /\ NamedAfterKey(ItemOrigins[i])
          /\ RawNameOf(ItemOrigins[i]) = idF1
          /\ EarlierOfName(ItemOrigins, i) = {}
          /\ lowered[i].ident = idF1
          /\ resolved[i].ident = Suffixed(idF1, 1)

(* C5: no parameter or return type of a lowered signature holds, at any depth,
   a bare reference to a type parameter in scope of it: those of its
   declaration joined with those of its member or function.  It holds of the
   lowered items and of the items the pipeline ends with. *)
C5_GenericsErased ==
    LET o == ItemOrigins
        Erased(items) ==
            /\ Len(items) = Len(o)
            /\ \A i \in 1..Len(items) :
                  \A t \in SignatureTypes(items[i]) :
                      \A u \in TypesWithin(t) :
                          ~(u.k = "Named" /\ u.n \in {sanitize_sym(g) : g \in ScopeOf(o[i])})
    IN  /\ HasLowered => Erased(lowered)
        /\ HasLegal => Erased(legal)

\* method m<U>(x: (U | undefined)[]) of class A<T>: x is a slice of options of JsValue
C5_Witness ==
    /\ HasLowered
    /\ \E i \in 1..Len(lowered) :
          /\ ItemOrigins[i].role = "member"
          /\ ItemOrigins[i].decl.kind = "Class"
          /\ ItemOrigins[i].member.kind = "Method"
          /\ Len(ItemOrigins[i].member.function.params) = 1
          /\ ItemOrigins[i].member.function.params[1].type_ann
                = TsArray(TsUnion(<<TsRef(idU, <<>>), TsUndefined>>))
          /\ lowered[i].inputs[2].ty = BoxSlice(OptionTy(js_value))

\* t is a reference to a callable, or an Option or a boxed slice around one
RECURSIVE WrapsCallable(_)
WrapsCallable(t) ==
    IsRefTraitObject(t) \/ (t.k \in {"Option", "Box"} /\ WrapsCallable(t.a[1]))

\* t when it is in the set of the unit, JsValue when it is not
Legalized(t) == IF t \in wasm_abi_set(pubs) THEN t ELSE js_value

(* C6, as claimed: legalization leaves a reference to a callable untouched as a
   parameter type, as a return type, also inside Option or a boxed slice, and as
   the type of a static; any other type is replaced by JsValue exactly when it
   is not in the set. *)
C6_CallablesUntouched ==
    HasLegal =>
        \A i \in 1..Len(legal) :
            /\ \A p \in 1..Len(legal[i].inputs) :
                  legal[i].inputs[p].ty =
                      IF IsRefTraitObject(cleaned[i].inputs[p].ty)
                      THEN cleaned[i].inputs[p].ty
                      ELSE Legalized(cleaned[i].inputs[p].ty)
            /\ legal[i].kind = "Static" =>
                  legal[i].ty = IF IsRefTraitObject(cleaned[i].ty) THEN cleaned[i].ty
                                ELSE Legalized(cleaned[i].ty)
            /\ (legal[i].kind = "Fn" /\ cleaned[i].output # NoTy) =>
                  legal[i].output = IF WrapsCallable(cleaned[i].output)
                                    THEN cleaned[i].output
                                    ELSE Legalized(cleaned[i].output)

(* C6, amended: legalization leaves a reference to a callable untouched as a
   parameter type and as the type of a static; a return type that is a
   reference to a callable, or an Option or a boxed slice around one, becomes
   JsValue; any other type is replaced by JsValue exactly when it is not in the
   set. *)
C6_CallableParamsKept ==
    HasLegal =>
        \A i \in 1..Len(legal) :
            /\ \A p \in 1..Len(legal[i].inputs) :
                  legal[i].inputs[p].ty =
                      IF IsRefTraitObject(cleaned[i].inputs[p].ty)
                      THEN cleaned[i].inputs[p].ty
                      ELSE Legalized(cleaned[i].inputs[p].ty)
            /\ legal[i].kind = "Static" =>
                  legal[i].ty = IF IsRefTraitObject(cleaned[i].ty) THEN cleaned[i].ty
                                ELSE Legalized(cleaned[i].ty)
            /\ (legal[i].kind = "Fn" /\ cleaned[i].output # NoTy) =>
                  legal[i].output = IF WrapsCallable(cleaned[i].output)
                                    THEN js_value
                                    ELSE Legalized(cleaned[i].output)

\* a returned reference to a callable has become JsValue
C6_Witness ==
    /\ HasLegal
    /\ \E i \in 1..Len(legal) :
          /\ IsRefTraitObject(cleaned[i].output)
          /\ legal[i].output = js_value

(* C7: after collision resolution no Self is left in the signature of an
   instance member of a class, an interface or a type alias, at any depth. *)
C7_SelfReplaced ==
    HasResolved =>
        LET o == ItemOrigins
        IN  \A i \in 1..Len(resolved) :
                (/\ o[i].role = "member"
                 /\ ~o[i].member.is_static
                 /\ o[i].member.kind # "Constructor") =>
                    \A t \in SignatureTypes(resolved[i]) : SelfTy \notin TypesWithin(t)

\* the unit without the class members marked private or protected
WithoutHidden(body) ==
    LET Visible(m) == m.accessibility \notin {"Private", "Protected"}
        visible(decl) == IF decl.kind = "Class"
                         THEN [decl EXCEPT !.members = SelectSeq(decl.members, Visible)]
                         ELSE decl
    IN  [i \in 1..Len(body) |-> [body[i] EXCEPT !.decl = visible(body[i].decl)]]

(* C8: the class members marked private or protected produce no binding and
   take no part in the numbering: the unit is lowered and resolved to the items
   of the unit without them, and in a unit of one class the public members with
   one raw name are named name, name_1, .. by their order among the public
   members, so that a public method after a private one of its name is the one
   binding of that name and has no suffix. *)
C8_HiddenMembersUnbound ==
    /\ HasLowered =>
          LET public == module_foreign_items(WithoutHidden(unit))
          IN  /\ lowered = public
              /\ HasResolved => resolved = module_extern_items(unit, public)
    /\ (/\ HasResolved
        /\ Len(unit) = 1
        /\ unit[1].kind = "ExportDecl"
        /\ unit[1].decl.kind = "Class"
        /\ PlainRawNames(ItemOrigins)) =>
          LET o == ItemOrigins
          IN  /\ Len(resolved) = Len(o)
              /\ \A i \in 1..Len(o) :
                    NamedAfterKey(o[i]) =>
                        LET k == Cardinality(EarlierOfName(o, i))
                            name == sanitize_sym(RawNameOf(o[i]))
                        IN  resolved[i].ident = IF k = 0 THEN name ELSE Suffixed(name, k)

\* class Foo { private bar(): string; bar(): string } is bound to Foo and bar
C8_Witness ==
    /\ HasResolved
    /\ Len(unit) = 1
    /\ unit[1].decl.kind = "Class"
    /\ Len(unit[1].decl.members) = 2
    /\ unit[1].decl.members[1].accessibility = "Private"
    /\ unit[1].decl.members[2].accessibility = "None"
    /\ unit[1].decl.members[1].key = unit[1].decl.members[2].key
    /\ unit[1].decl.members[2].kind = "Method"
    /\ ~unit[1].decl.members[2].is_static
    /\ Len(resolved) = 2
    /\ resolved[2].ident = idBar

\* the items among items that are the i-th or come before it and have its owner
OfOwnerUpTo(o, items, i) ==
    LET RECURSIVE pick(_)
        pick(j) == IF j > i THEN <<>>
                   ELSE (IF j = i \/ j \in EarlierOfOwner(o, i) THEN <<items[j]>> ELSE <<>>)
                        \o pick(j + 1)
    IN  pick(1)

(* C9: the numbering is scoped per owner.  The name the resolver gives an item
   is the name it gives it when only the items of its owner are resolved, and
   an item whose sanitized raw name no earlier item of its owner was emitted
   with keeps that name, whatever the items of other owners, the functions and
   the statics of the module are called. *)
C9_OwnerScoped ==
    HasResolved =>
        LET o == ItemOrigins
        IN  \A i \in 1..Len(resolved) :
                o[i].role # "type" =>
                    LET own == ModuleBindingsCleaner_pass(OfOwnerUpTo(o, lowered, i))
                    IN  /\ resolved[i].ident = own[Len(own)].ident
                        /\ (/\ NamedAfterKey(o[i])
                            /\ \A j \in EarlierOfOwner(o, i) :
                                  resolved[j].ident # sanitize_sym(RawNameOf(o[i]))) =>
                              resolved[i].ident = sanitize_sym(RawNameOf(o[i]))

\* a method f of class A, a method f of class B and a function f: three times f
C9_Witness ==
    /\ HasResolved
    /\ Len(resolved) = 5
    /\ {OwnerOf(ItemOrigins[i]) : i \in {2, 4}} = {idA, idB}
    /\ ItemOrigins[5].role = "free"
    /\ ItemOrigins[5].decl.kind = "Fn"
    /\ \A i \in {2, 4, 5} : RawNameOf(ItemOrigins[i]) = idF /\ resolved[i].ident = idF

\* the mapping of the types number, string and boolean
MappedKeyword(ty) ==
    CASE ty = TsNumber -> Prim("f64")
      [] ty = TsString -> StringTy
      [] ty = TsBoolean -> Prim("bool")

\* the parameters of a function, mapped
MappedParams(function) ==
    [p \in 1..Len(function.params) |->
        PatType(sanitize_sym(function.params[p].sym), MappedKeyword(function.params[p].type_ann))]

\* a class of one public constructor and of public instance methods with
\* identifier keys, whose annotations are number, string or boolean
PlainClass(decl) ==
    /\ decl.kind = "Class"
    /\ decl.type_params = <<>>
    /\ decl.super = <<>>
    /\ Cardinality({m \in 1..Len(decl.members) : decl.members[m].kind = "Constructor"}) = 1
    /\ \A m \in 1..Len(decl.members) :
          LET member == decl.members[m]
          IN  /\ member.kind \in {"Constructor", "Method"}
              /\ member.accessibility \in {"None", "Public"}
              /\ member.key # <<>>
              /\ member.kind = "Constructor" => member.key = ConstructorSym
              /\ member.kind = "Method" =>
                    /\ ~member.is_static
                    /\ member.method_kind = "Method"
                    /\ member.function.return_type \in {TsNumber, TsString, TsBoolean}
              /\ member.function.type_params = <<>>
              /\ \A p \in 1..Len(member.function.params) :
                    /\ ~member.function.params[p].optional
                    /\ member.function.params[p].type_ann \in {TsNumber, TsString, TsBoolean}

(* C10: a class of one public constructor and k public instance methods with
   identifier keys is lowered, in member order, to one opaque type named after
   the class, one function new tagged constructor that takes the mapped
   parameters of the constructor and returns the class, and k functions tagged
   method that take a reference to the class and then the mapped parameters and
   return the mapped return type; number maps to f64, string to String and
   boolean to bool. *)
C10_ClassLowering ==
    (HasLowered /\ Len(unit) = 1 /\ unit[1].kind = "ExportDecl" /\ PlainClass(unit[1].decl)) =>
        LET decl == unit[1].decl
            class == Named(sanitize_sym(decl.sym))
        IN  /\ Len(lowered) = Len(decl.members) + 1
            /\ lowered[1].kind = "Type"
            /\ lowered[1].ident = sanitize_sym(decl.sym)
            /\ \A m \in 1..Len(decl.members) :
                  LET member == decl.members[m]
                      item == lowered[m + 1]
                  IN  /\ item.kind = "Fn"
                      /\ member.kind = "Constructor" =>
                            /\ item.ident = NewIdent
                            /\ item.inputs = MappedParams(member.function)
                            /\ item.output = class
                            /\ <<Flag("constructor")>> \in Range(item.attrs)
                      /\ member.kind = "Method" =>
                            /\ item.ident = sanitize_sym(member.key)
                            /\ item.inputs = <<PatType(ThisIdent, Ref(class))>>
                                                \o MappedParams(member.function)
                            /\ item.output = MappedKeyword(member.function.return_type)
                            /\ <<Flag("method")>> \in Range(item.attrs)

\* class Foo { constructor(x: number); bar(): string } is lowered to three items
C10_Witness ==
    /\ HasLowered
    /\ Len(unit) = 1
    /\ PlainClass(unit[1].decl)
    /\ unit[1].decl.sym = idFoo
    /\ Len(unit[1].decl.members) = 2
    /\ unit[1].decl.members[1].kind = "Constructor"
    /\ unit[1].decl.members[2].key = idBar
    /\ Len(lowered) = 3
    /\ lowered[2].output = Named(idFoo)
    /\ lowered[3].inputs = <<PatType(ThisIdent, Ref(Named(idFoo)))>>
    /\ lowered[3].output = StringTy

\* the receiver: a first parameter this
HasReceiver(fi) == Len(fi.inputs) >= 1 /\ fi.inputs[1].pat = ThisIdent

\* the entries of all the attributes of an item
AttrEntries(fi) == UNION {Range(fi.attrs[i]) : i \in 1..Len(fi.attrs)}

\* the methods, accessors and properties of a class
IsClassMemberItem(o) ==
    o.role = "member" /\ o.decl.kind = "Class" /\ o.member.kind \in {"Method", "ClassProp"}

(* C11: an item lowered from a method, a getter, a setter or a property of a
   class has the receiver as its first parameter exactly when the member is not
   static, and the item of a static member is tagged static_method_of the class
   and has no receiver. *)
C11_ReceiverIffInstance ==
    HasLowered =>
        LET o == ItemOrigins
        IN  \A i \in 1..Len(lowered) :
                IsClassMemberItem(o[i]) =>
                    /\ HasReceiver(lowered[i]) <=> ~o[i].member.is_static
                    /\ o[i].member.is_static =>
                          Entry("static_method_of", sanitize_sym(o[i].decl.sym), FALSE)
                              \in AttrEntries(lowered[i])

\* "Getter" or "Setter" for the item of an accessor, "None" for the others
AccessorKind(o) ==
    CASE o.role # "member" -> "None"
      [] o.member.kind = "Method" /\ o.member.method_kind \in {"Getter", "Setter"} ->
            o.member.method_kind
      [] o.member.kind = "TsGetterSignature" -> "Getter"
      [] o.member.kind = "TsSetterSignature" -> "Setter"
      [] OTHER -> "None"

AccessorName(kind, key) ==
    sanitize_sym((IF kind = "Getter" THEN <<"g","e","t","_">> ELSE <<"s","e","t","_">>)
                 \o sanitize_sym(key))

(* C12: the item of every getter and of every setter, of a class (static or
   not), of an interface or of a type literal, is named get_<name> or
   set_<name>, sanitized, and carries the getter or the setter tag together
   with the method tag. *)
C12_AccessorsTagged ==
    HasLowered =>
        LET o == ItemOrigins
        IN  \A i \in 1..Len(lowered) :
                AccessorKind(o[i]) # "None" =>
                    /\ lowered[i].ident = AccessorName(AccessorKind(o[i]), o[i].member.key)
                    /\ Flag("method") \in AttrEntries(lowered[i])
                    /\ Flag(IF AccessorKind(o[i]) = "Getter" THEN "getter" ELSE "setter")
                           \in AttrEntries(lowered[i])

\* the values of the js_name entries of an item
OriginalNames(fi) == {e.val : e \in {a \in AttrEntries(fi) : a.key = "js_name"}}

(* C13: an opaque type, a function, a static, a method, an accessor or a
   property whose name, sanitized and then possibly renamed, differs from its
   raw foreign name carries an original-name annotation, and the value of the
   annotation is the raw foreign name. *)
C13_OriginalNameKept ==
    HasResolved =>
        LET o == ItemOrigins
        IN  \A i \in 1..Len(resolved) :
                (o[i].member.kind # "Constructor" /\ resolved[i].ident # RawNameOf(o[i])) =>
                    OriginalNames(resolved[i]) = {RawNameOf(o[i])}

\* the namespaces of a body with the raw names of the namespaces around each,
\* outermost first, and the origins of the items of each; inner namespaces
\* come before the namespace they are in
RECURSIVE NamespaceScopes(_, _, _)
NamespaceScopes(body, around, in_namespace) ==
    Flatten([i \in 1..Len(body) |->
        IF IsTsModuleItem(body[i], in_namespace) /\ body[i].decl.is_lit
        THEN NamespaceScopes(body[i].decl.members, Append(around, body[i].decl.sym), TRUE)
        ELSE <<>>])
    \o (LET decls == namespace_decls(body)
            origins == Flatten([i \in 1..Len(decls) |-> DeclOrigins(decls[i])])
        IN  IF in_namespace /\ origins # <<>>
            THEN <<[around |-> around, origins |-> origins]>> ELSE <<>>)

\* the js_namespace attributes of an item
NamespaceAttrs(fi) ==
    {i \in 1..Len(fi.attrs) : \E j \in 1..Len(fi.attrs[i]) : fi.attrs[i][j].key = "js_namespace"}

\* the namespace path of an item that has one js_namespace attribute
NamespacePath(fi) ==
    LET e == CHOOSE e \in AttrEntries(fi) : e.key = "js_namespace" IN e.val

(* C14: every item lowered in namespaces N1 { .. Nd { } } carries one namespace
   path, and the path is N1 .. Nd, the raw names from the outermost namespace
   to the innermost; opaque types, functions and statics alike.  Stated for
   units without an `export as namespace` statement. *)
C14_NamespacePath ==
    (HasResolved /\ enclosing_ns(unit) = <<>>) =>
        LET scopes == NamespaceScopes(unit, <<>>, FALSE)
        IN  /\ Len(mods) = Len(scopes)
            /\ \A b \in 1..Len(mods) :
                  /\ Len(mods[b].items) = Len(scopes[b].origins)
                  /\ \A i \in 1..Len(mods[b].items) :
                        /\ Cardinality(NamespaceAttrs(mods[b].items[i])) = 1
                        /\ NamespacePath(mods[b].items[i]) = scopes[b].around

\* an opaque type and a function two namespaces deep, both with the path N1 N2
C14_Witness ==
    /\ HasResolved
    /\ enclosing_ns(unit) = <<>>
    /\ \E b \in 1..Len(mods) :
          /\ Len(mods[b].path) = 2
          /\ \E i, j \in 1..Len(mods[b].items) :
                /\ mods[b].items[i].kind = "Type"
                /\ mods[b].items[j].kind = "Fn"
                /\ NamespaceAttrs(mods[b].items[i]) # {}
                /\ NamespacePath(mods[b].items[i]) = <<NsName(1), NsName(2)>>
                /\ NamespacePath(mods[b].items[j]) = <<NsName(1), NsName(2)>>

(* C15: composing the unit whose only statement is the namespace
   N1 { function g(): boolean; }, written without export, yields the extern
   function g that returns bool and carries the namespace path N1. *)
C15_UnexportedNamespace ==
    (/\ HasResolved
     /\ unit = <<NsItem(1, 1, FnDecl(idG, Function(<<>>, <<>>, TsBoolean)),
                        "StmtDecl", "StmtDecl")>>) =>
        /\ Len(ModItems(mods)) = 1
        /\ LET g == ModItems(mods)[1]
           IN  /\ g.kind = "Fn"
               /\ g.ident = idG
               /\ g.inputs = <<>>
               /\ g.output = Prim("bool")
               /\ NamespaceAttrs(g) # {}
               /\ NamespacePath(g) = <<NsName(1)>>

\* the identifier of the last default export of a body that has one
DefaultIdent(body) ==
    LET defaults == {i \in 1..Len(body) : body[i].kind = "ExportDefaultExpr"}
    IN  body[CHOOSE i \in defaults : \A j \in defaults : j <= i].ident

\* the declarations of the statements of a body that satisfy test, in order
DeclsOf(body, test(_)) ==
    LET picked == SelectSeq(body, test) IN [i \in 1..Len(picked) |-> picked[i].decl]

(* C16: in a unit with `export default f`, every declaration named f that is
   not exported is lowered once, to the items it gives when it is exported,
   and a declaration that is exported is lowered once and not again for the
   default export: the items of the unit are those of its exported
   declarations and then those of each unexported declaration named f. *)
C16_DefaultLoweredOnce ==
    (HasLowered /\ \E i \in 1..Len(unit) : unit[i].kind = "ExportDefaultExpr") =>
        LET IsExported(item) == item.kind = "ExportDecl"
            IsReferenced(item) ==
                item.kind = "StmtDecl" /\ decl_ident(item.decl) = DefaultIdent(unit)
            decls == DeclsOf(unit, IsExported) \o DeclsOf(unit, IsReferenced)
        IN  lowered = Flatten([i \in 1..Len(decls) |-> decl_to_items(decls[i])])

IsNullable(ty) == IsTsKeyword(ty, {"undefined", "null"})

\* Option of the mapping of T for the unions T | undefined, T | null,
\* undefined | T and null | T, and JsValue for the other unions
UnionMapping(union) ==
    IF Len(union.a) = 2 /\ (IsNullable(union.a[1]) \/ IsNullable(union.a[2]))
    THEN OptionTy(ts_type_to_type(IF IsNullable(union.a[2]) THEN union.a[1] ELSE union.a[2]))
    ELSE js_value

(* C17: a union of two members of which one is undefined or null maps to
   Option of the mapping of the other member, whichever of the two is written
   first, and every other union maps to JsValue.  Read off the static of a
   variable that is annotated with the union. *)
C17_NullableUnion ==
    HasLowered =>
        LET o == ItemOrigins
        IN  \A i \in 1..Len(lowered) :
                (/\ o[i].decl.kind = "Var"
                 /\ o[i].decl.decls[1].type_ann.k = "TsUnionType"
                 /\ ~o[i].decl.decls[1].optional) =>
                    lowered[i].ty = UnionMapping(o[i].decl.decls[1].type_ann)

\* a union that is not one member with undefined or null
IsUnrepresentable(ty) ==
    /\ ty.k = "TsUnionType"
    /\ ~(Len(ty.a) = 2 /\ (IsNullable(ty.a[1]) \/ IsNullable(ty.a[2])))

(* C18: lowering the declaration of a variable whose annotation is a union with
   no representation, such as one of three members, writes a diagnostic and
   yields one item, the static of the variable with the type JsValue. *)
C18_UnionFallback ==
    (/\ HasLowered
     /\ Len(unit) = 1
     /\ unit[1].kind = "ExportDecl"
     /\ unit[1].decl.kind = "Var"
     /\ IsUnrepresentable(unit[1].decl.decls[1].type_ann)) =>
        /\ Len(lowered) = 1
        /\ lowered[1].kind = "Static"
        /\ lowered[1].ident = sanitize_sym(unit[1].decl.decls[1].sym)
        /\ lowered[1].ty = js_value
        /\ diagnostics # <<>>

\* the annotations of the declaration or of the member an item comes from
AnnotationsOf(o) ==
    IF o.role = "type" THEN {}
    ELSE LET function == IF o.role = "member" THEN o.member.function ELSE o.decl.function
         IN  ({function.params[i].type_ann : i \in 1..Len(function.params)}
              \cup {function.return_type}
              \cup (IF o.role = "member" THEN {o.member.type_ann} ELSE {})
              \cup (IF o.decl.kind = "Var" THEN {o.decl.decls[1].type_ann} ELSE {}))
             \ {NoAnn}

\* ty and the types in it that the mapper is applied to when it maps ty: all of
\* them but the members of a union that is not T | undefined or T | null, the
\* members of an intersection after the first, and the return type of a
\* function type
RECURSIVE MappedWithin(_)
MappedWithin(ty) ==
    {ty} \cup
    UNION {MappedWithin(ty.a[i]) :
              i \in CASE ty.k \in {"TsUnionType"} ->
                            IF Len(ty.a) = 2 /\ IsNullable(ty.a[2]) THEN {1} ELSE {}
                      [] ty.k = "TsIntersectionType" -> {1} \cap (1..Len(ty.a))
                      [] OTHER -> 1..Len(ty.a)}

\* the types the mapper is applied to when the items of the unit are lowered
MappedTypes ==
    LET o == ItemOrigins
    IN  UNION {UNION {MappedWithin(ty) : ty \in AnnotationsOf(o[i])} : i \in 1..Len(o)}

(* C19: the type mapper is total on the keywords: where it meets bigint,
   symbol or intrinsic the run does not abort, a diagnostic is written, and the
   static of a variable annotated with the keyword has the type JsValue. *)
C19_KeywordsTotal ==
    (\E ty \in MappedTypes : IsTsKeyword(ty, {"bigint", "symbol", "intrinsic"})) =>
        /\ pc # "lower_panic"
        /\ HasLowered =>
              /\ diagnostics # <<>>
              /\ \A i \in 1..Len(lowered) :
                    (/\ lowered[i].kind = "Static"
                     /\ IsTsKeyword(ItemOrigins[i].decl.decls[1].type_ann,
                                    {"bigint", "symbol", "intrinsic"})) =>
                        lowered[i].ty = js_value

\* every type in ty
RECURSIVE TsTypesWithin(_)
TsTypesWithin(ty) == {ty} \cup UNION {TsTypesWithin(ty.a[i]) : i \in 1..Len(ty.a)}

\* the types in the annotations of the items of the unit
AnnotatedTypes ==
    LET o == ItemOrigins
    IN  UNION {UNION {TsTypesWithin(ty) : ty \in AnnotationsOf(o[i])} : i \in 1..Len(o)}

AbortingKinds ==
    {"TsMappedType", "TsConditionalType", "TsTypeOperator", "TsTypePredicate", "TsRestType"}

(* C20, as claimed: a mapped, conditional, indexed-access, type-operator,
   predicate or rest type anywhere in the signature of a declaration aborts the
   lowering, and no binding is emitted in which the type is replaced. *)
C20_AllFormsAbort ==
    (\E ty \in AnnotatedTypes : ty.k \in AbortingKinds \cup {"TsIndexedAccessType"}) =>
        /\ ~HasLowered
        /\ lowered = <<>>

(* C20, amended: a mapped, conditional, type-operator, predicate or rest type
   that the mapper is applied to aborts the lowering, and no binding of the
   unit is emitted; an indexed-access type is reported with a diagnostic and
   mapped to JsValue, and the binding is emitted. *)
C20_MappedFormsAbort ==
    /\ (\E ty \in MappedTypes : ty.k \in AbortingKinds) =>
          /\ ~HasLowered
          /\ lowered = <<>>
    /\ HasLowered =>
          /\ (\E ty \in MappedTypes : ty.k = "TsIndexedAccessType") =>
                \E i \in 1..Len(diagnostics) :
                    diagnostics[i] = "Indexed access type unsupported"
          /\ \A i \in 1..Len(lowered) :
                (/\ lowered[i].kind = "Static"
                 /\ ItemOrigins[i].decl.decls[1].type_ann.k = "TsIndexedAccessType") =>
                    lowered[i].ty = js_value

\* the lowering has stopped at a rest type that is the element type of the
\* array a method takes
C20_Witness ==
    /\ pc = "lower_panic"
    /\ \E i \in 1..Len(ItemOrigins) :
          /\ ItemOrigins[i].role = "member"
          /\ \E ty \in AnnotationsOf(ItemOrigins[i]) :
                ty.k = "TsArrayType" /\ ty.a[1].k = "TsRestType"

-----------------------------------------------------------------------------
\* a member of a type literal that has no binding: a call signature, a
\* construct signature, an index signature, a property with parameters
IsDroppedElement(elem) ==
    \/ elem.kind \in {"TsCallSignatureDecl", "TsConstructSignatureDecl", "TsIndexSignature"}
    \/ elem.kind = "TsPropertySignature" /\ Len(elem.function.params) > 0

\* the declaration without the members of its literal that have no binding
WithoutDropped(decl) ==
    [decl EXCEPT !.members = SelectSeq(decl.members, LAMBDA e : ~IsDroppedElement(e))]

(* C21: lowering an alias of a type literal never aborts on a member that is a
   call signature, a construct signature, an index signature or a property
   with parameters: the run goes on, one diagnostic is written for each such
   member, and the items are the type and the accessors of the other members. *)
C21_SignaturesDropped ==
    \A i \in 1..Len(unit) :
        LET decl == unit[i].decl
            dropped == SelectSeq(decl.members, IsDroppedElement)
        IN  (/\ Len(unit) = 1
             /\ unit[i].kind = "ExportDecl"
             /\ decl.kind = "TsTypeAlias"
             /\ decl.is_lit
             /\ dropped # <<>>
             /\ ~decl_panics(WithoutDropped(decl))) =>
                /\ pc # "lower_panic"
                /\ HasLowered =>
                      /\ lowered = decl_to_items(WithoutDropped(decl))
                      /\ Len(diagnostics) >= Len(dropped)

\* the part of C21 that is about index signatures only
C21_IndexSignaturesDropped ==
    \A i \in 1..Len(unit) :
        LET decl == unit[i].decl
            dropped == SelectSeq(decl.members, IsDroppedElement)
        IN  (/\ Len(unit) = 1
             /\ unit[i].kind = "ExportDecl"
             /\ decl.kind = "TsTypeAlias"
             /\ decl.is_lit
             /\ dropped # <<>>
             /\ \A j \in 1..Len(dropped) : dropped[j].kind = "TsIndexSignature"
             /\ ~decl_panics(WithoutDropped(decl))) =>
                /\ pc # "lower_panic"
                /\ HasLowered =>
                      /\ lowered = decl_to_items(WithoutDropped(decl))
                      /\ Len(diagnostics) >= Len(dropped)

-----------------------------------------------------------------------------
\* the constructors of a class that are neither private nor protected
PublicConstructors(decl) ==
    SelectSeq(decl.members,
              LAMBDA m : m.kind = "Constructor" /\ m.accessibility \notin {"Private", "Protected"})

\* the items that carry the attribute #[wasm_bindgen(constructor)]
ConstructorTagged(items) ==
    SelectSeq(items, LAMBDA fi : \E e \in AttrEntries(fi) : e.key = "constructor")

(* C22: the lowering of a class with more than one public constructor, or with
   a constructor whose key is not `constructor`, aborts: the run yields no items
   for it, so never two items tagged constructor, nor one named other than new. *)
C22_ConstructorsAbort ==
    \A i \in 1..Len(unit) :
        LET decl == unit[i].decl
            ctors == PublicConstructors(decl)
        IN  (/\ unit[i].kind = "ExportDecl"
             /\ decl.kind = "Class"
             /\ \/ Len(ctors) > 1
                \/ \E j \in 1..Len(ctors) : ctors[j].key # ConstructorSym) =>
                /\ ~HasLowered
                /\ Len(ConstructorTagged(lowered)) <= 1
                /\ \A j \in 1..Len(lowered) :
                       lowered[j] \in Range(ConstructorTagged(lowered)) =>
                           lowered[j].ident = NewIdent

\* a class with one public constructor of the key `constructor` yields one item
\* tagged constructor, named new, in every pass
C22_OneConstructor ==
    \A i \in 1..Len(unit) :
        LET decl == unit[i].decl
            ctors == PublicConstructors(decl)
        IN  (/\ Len(unit) = 1
             /\ unit[i].kind = "ExportDecl"
             /\ decl.kind = "Class"
             /\ Len(ctors) = 1
             /\ ctors[1].key = ConstructorSym
             /\ HasLegal) =>
                \A items \in {lowered, resolved, cleaned, legal} :
                    /\ Len(ConstructorTagged(items)) = 1
                    /\ ConstructorTagged(items)[1].ident = NewIdent

-----------------------------------------------------------------------------
UnitTy == TupleTy(<<>>)

\* the function of the declaration or member an item comes from
FunctionOf(o) == IF o.role = "member" THEN o.member.function ELSE o.decl.function

\* the return type that the function, the method or the getter an item comes
\* from declares; NoAnn where none is declared
DeclaredReturn(o) ==
    CASE o.role = "free" /\ o.decl.kind = "Fn" -> o.decl.function.return_type
      [] o.role = "member" /\ o.member.kind \in {"Method", "TsMethodSignature"} ->
            o.member.function.return_type
      [] o.role = "member" /\ o.member.kind = "TsGetterSignature" -> o.member.type_ann
      [] OTHER -> NoAnn

\* the annotation of the property or of the variable an item comes from
DeclaredValue(o) ==
    CASE o.role = "member" /\ o.member.kind \in {"ClassProp", "TsPropertySignature"} ->
            o.member.type_ann
      [] o.role = "free" /\ o.decl.kind = "Var" -> o.decl.decls[1].type_ann
      [] OTHER -> NoAnn

\* whether a value of the annotation may be left out
DeclaredOptional(o) ==
    IF o.role = "member" THEN o.member.is_optional ELSE FALSE

\* t, or Option<t> for what may be left out
MaybeOption(optional, t) == IF optional THEN OptionTy(t) ELSE t

\* the unit type is among the types the types of the item are built from
HasUnitWithin(fi) == \E t \in SignatureTypes(fi) : UnitTy \in TypesWithin(t)

(* C23: a function, method or getter whose declared return type is the keyword
   void is lowered to an item without return type, and one with another
   declared return type to an item with a return type; void as the annotation
   of a parameter, a property or a variable maps to the unit type, and void
   inside another annotation to the unit type inside the mapped type. *)
C23_VoidReturn ==
    HasLowered =>
        LET o == ItemOrigins
        IN  \A i \in 1..Len(lowered) :
                o[i].role # "type" =>
                    LET fi == lowered[i]
                        params == FunctionOf(o[i]).params
                        receiver == Len(fi.inputs) - Len(params)
                        value == DeclaredValue(o[i])
                        return == DeclaredReturn(o[i])
                    IN  /\ return = TsVoid => fi.output = NoTy
                        /\ return \notin {NoAnn, TsVoid} => fi.output # NoTy
                        /\ \A j \in 1..Len(params) :
                               params[j].type_ann = TsVoid =>
                                   fi.inputs[receiver + j].ty =
                                       MaybeOption(params[j].optional, UnitTy)
                        /\ (value = TsVoid /\ fi.kind = "Static") => fi.ty = UnitTy
                        /\ (value = TsVoid /\ fi.kind # "Static") =>
                               fi.output = MaybeOption(DeclaredOptional(o[i]), UnitTy)
                        /\ \A ann \in AnnotationsOf(o[i]) \ {TsVoid} :
                               TsVoid \in MappedWithin(ann) => HasUnitWithin(fi)

\* lowered: a function or method that declares the return type void, as an item
\* without return type
C23_Witness ==
    /\ HasLowered
    /\ Len(unit) = 1
    /\ Len(lowered) > 0
    /\ LET o == ItemOrigins[Len(lowered)]
           fi == lowered[Len(lowered)]
       IN  /\ o.role # "type"
           /\ DeclaredReturn(o) = TsVoid
           /\ fi.output = NoTy
           /\ fi.kind = "Fn"

-----------------------------------------------------------------------------
\* the identifiers of the paths around the leaf of a use tree, outermost first
RECURSIVE UsePrefix(_)
UsePrefix(tree) ==
    IF tree.k = "Path" THEN <<tree.ident>> \o UsePrefix(tree.items[1]) ELSE <<>>

\* the leaf of a use tree: a name, a rename or a group
RECURSIVE UseLeaf(_)
UseLeaf(tree) == IF tree.k = "Path" THEN UseLeaf(tree.items[1]) ELSE tree

\* the scope of a segment that is no dot: the segment without a trailing .js,
\* with the suffix Mod
ScopeName(seg) ==
    LET n == Len(seg)
        named == IF n >= 3 /\ seg[n - 2] = "." /\ seg[n - 1] = "j" /\ seg[n] = "s"
                 THEN SubSeq(seg, 1, n - 3) ELSE seg
    IN  named \o <<"M", "o", "d">>

\* the prefix of a path, read off its segments one by one
ScopePrefix(segs) ==
    Flatten([i \in 1..Len(segs) |->
        CASE segs[i] = Dot -> <<SuperIdent>>
          [] segs[i] = DotDot ->
                IF \A j \in 1..(i - 1) : segs[j] # DotDot
                THEN <<SuperIdent, SuperIdent>> ELSE <<SuperIdent>>
          [] OTHER -> <<ScopeName(segs[i])>>])

\* the number of `..` segments a path starts with
RECURSIVE LeadingDotDots(_)
LeadingDotDots(segs) ==
    IF segs # <<>> /\ segs[1] = DotDot THEN 1 + LeadingDotDots(Tail(segs)) ELSE 0

(* C24: the use statement of an import of some name from a path has, around its leaf and in
   the order of the segments of the path split on `/`, one super for a
   segment `.`, two for the first segment `..` and one for every later `..`,
   and for any other segment its name without a trailing .js and with the
   suffix Mod; a path that starts with k >= 1 segments `..` starts with k + 1
   times super. *)
C24_PrefixBySegments ==
    \A segs \in PathsOfSegments :
        (HasLowered /\ Len(unit) = 1 /\ unit[1].kind = "Import"
         /\ unit[1].src = <<JoinPath(segs)>>
         /\ \E i \in 1..Len(unit[1].specifiers) : unit[1].specifiers[i].kind # "Namespace") =>
            LET k == LeadingDotDots(segs)
                prefix == UsePrefix(uses[1])
            IN  /\ Len(uses) = 1
                /\ prefix = ScopePrefix(segs)
                /\ k >= 1 =>
                      /\ \A j \in 1..(k + 1) : prefix[j] = SuperIdent
                      /\ Len(prefix) > k + 1 => prefix[k + 2] # SuperIdent \/ segs[k + 1] = Dot

\* lowered: the import from ../../a, as a use of super::super::super::aMod
C24_Witness ==
    /\ HasLowered
    /\ Len(unit) = 1
    /\ unit[1].kind = "Import"
    /\ unit[1].src = <<JoinPath(<<DotDot, DotDot, idA>>)>>
    /\ Len(uses) = 1
    /\ UsePrefix(uses[1]) = <<SuperIdent, SuperIdent, SuperIdent, <<"A", "M", "o", "d">> >>

-----------------------------------------------------------------------------
\* the leaves of a use statement: the items of its group, or its one leaf
UseLeaves(tree) ==
    LET leaf == UseLeaf(tree)
    IN  IF leaf.k = "Group" THEN leaf.items ELSE <<leaf>>

\* the specifiers of an import or export statement that are renamed:
\* import { X as Y }  and  export { X as Y }
RenamedSpecifiers(item) ==
    SelectSeq(item.specifiers,
              LAMBDA s : s.kind = "Named" /\
                         (IF item.kind = "Import" THEN s.imported ELSE s.exported) # <<>>)

(* C28: an import specifier that imports the export X of the source under the
   local name Y becomes the alias  X as Y  behind the prefix of the source,
   and the names the unit registers for the ABI legalization hold Y. *)
C28_ImportRenamed ==
    \A i \in 1..Len(unit) :
        (HasLowered /\ unit[i].kind = "Import") =>
            \A s \in Range(RenamedSpecifiers(unit[i])) :
                /\ \E u \in 1..Len(uses) :
                       /\ UsePrefix(uses[u]) = import_prefix_to_idents(unit[i].src[1])
                       /\ \E leaf \in Range(UseLeaves(uses[u])) :
                              /\ leaf.k = "Rename"
                              /\ leaf.ident = sanitize_sym(s.imported[1])
                              /\ leaf.rename = sanitize_sym(s.local)
                /\ pc \in {"abify", "done"} => sanitize_sym(s.local) \in pubs

\* an export specifier that exports X of the source under the name Y becomes
\* the alias  X as Y, and Y is registered
C28_ExportRenamed ==
    \A i \in 1..Len(unit) :
        (HasLowered /\ unit[i].kind = "ExportNamed") =>
            \A s \in Range(RenamedSpecifiers(unit[i])) :
                /\ \E u \in 1..Len(uses) :
                       \E leaf \in Range(UseLeaves(uses[u])) :
                           /\ leaf.k = "Rename"
                           /\ leaf.ident = sanitize_sym(s.orig)
                           /\ leaf.rename = sanitize_sym(s.exported[1])
                /\ pc \in {"abify", "done"} => sanitize_sym(s.exported[1]) \in pubs

-----------------------------------------------------------------------------
\* whether a specifier yields a leaf: all but the namespace specifiers
YieldsLeaf(spec) == spec.kind \in {"Named", "Default"}

(* C29: an import or a named export yields one use statement when one of its
   specifiers yields a leaf and none otherwise, and the run does not abort on
   it: a named export without specifiers is skipped, like an import of
   namespace specifiers only. *)
C29_OneUsePerStatement ==
    (Len(unit) = 1 /\ unit[1].kind \in {"Import", "ExportNamed"}) =>
        /\ pc # "lower_panic"
        /\ HasLowered =>
              Len(uses) = IF \E s \in Range(unit[1].specifiers) : YieldsLeaf(s) THEN 1 ELSE 0

\* C29 for the imports only
C29_OneUsePerImport ==
    (Len(unit) = 1 /\ unit[1].kind = "Import") =>
        /\ pc # "lower_panic"
        /\ HasLowered =>
              Len(uses) = IF \E s \in Range(unit[1].specifiers) : YieldsLeaf(s) THEN 1 ELSE 0

\* C29 for the named exports with a specifier and without namespace specifier
C29_OneUsePerExport ==
    (/\ Len(unit) = 1
     /\ unit[1].kind = "ExportNamed"
     /\ unit[1].specifiers # <<>>
     /\ \A s \in Range(unit[1].specifiers) : YieldsLeaf(s)) =>
        /\ pc # "lower_panic"
        /\ HasLowered => Len(uses) = 1

-----------------------------------------------------------------------------
(* C25: where a unit imports from the path p and annotates a variable with
   import(p).T, p relative, the type of the static is the path whose segments
   before the last are, one by one, the prefix of the use statement of the
   import, and whose last segment is the sanitized T; with a path that does
   not start with `.` the type is JsValue. *)
C25_ImportTypePrefix ==
    (/\ HasLowered
     /\ Len(unit) = 2
     /\ unit[1].kind = "Import"
     /\ unit[2].kind = "ExportDecl"
     /\ unit[2].decl.kind = "Var"
     /\ unit[2].decl.decls[1].type_ann.k = "TsImportType"
     /\ unit[2].decl.decls[1].type_ann.tp = unit[1].src) =>
        LET import == unit[2].decl.decls[1].type_ann
            ty == lowered[1].ty
        IN  IF starts_with_dot(import.tp[1])
            THEN /\ ty.k = "Path"
                 /\ SubSeq(ty.n, 1, Len(ty.n) - 1) = UsePrefix(uses[1])
                 /\ ty.n[Len(ty.n)] = sanitize_sym(import.n)
            ELSE ty = js_value

\* lowered: x of the type import("../../A").fooID, as a static of the type
\* super::super::super::AMod::fooId
C25_Witness ==
    /\ HasLowered
    /\ Len(unit) = 2
    /\ unit[2].kind = "ExportDecl"
    /\ unit[2].decl.kind = "Var"
    /\ unit[2].decl.decls[1].type_ann = TsImport(JoinPath(<<DotDot, DotDot, idA>>), idFooID)
    /\ lowered[1].ty = PathTy(<<SuperIdent, SuperIdent, SuperIdent, <<"A", "M", "o", "d">>,
                                <<"f", "o", "o", "I", "d">> >>)

-----------------------------------------------------------------------------
\* the types the signatures of the items are built from
TypesOfItems(items) ==
    UNION {UNION {TypesWithin(t) : t \in SignatureTypes(items[i])} : i \in 1..Len(items)}

IsParenthesized(t) == t.k = "Paren"

\* Option<Option<_>> or Option<JsValue>
IsNestedOption(t) == t.k = "Option" /\ t.a[1].k \in {"Option", "JsValue"}

\* a union written without parentheses is one union of all its members, so
\* that a union lies within a union only inside a parenthesized type
UnionsAreFlat ==
    \A ty \in AnnotatedTypes :
        ty.k = "TsUnionType" => \A i \in 1..Len(ty.a) : ty.a[i].k # "TsUnionType"

(* C26: after the BindingsCleaner pass no type of any signature is
   parenthesized, nor Option<Option<_>>, nor Option<JsValue>. *)
C26_CleanedTypes ==
    (pc \in {"pubs", "abify", "done"} /\ UnionsAreFlat) =>
        \A t \in TypesOfItems(cleaned) : ~IsParenthesized(t) /\ ~IsNestedOption(t)

\* the part of C26 about parentheses
C26_NoParentheses ==
    pc \in {"pubs", "abify", "done"} => \A t \in TypesOfItems(cleaned) : ~IsParenthesized(t)

\* C26 for the units whose annotations are neither nullable nor parenthesized:
\* there the only Option is the one of the optional parameter or property
C26_OptionalOnly ==
    (/\ pc \in {"pubs", "abify", "done"}
     /\ \A ty \in AnnotatedTypes : ty.k \notin {"TsUnionType", "TsOptionalType", "TsParenthesizedType"}) =>
        \A t \in TypesOfItems(cleaned) : ~IsParenthesized(t) /\ ~IsNestedOption(t)

-----------------------------------------------------------------------------
\* the unit declares a function whose parameter is of a qualified type N.T, after
\* the namespace N that declares the opaque type T
IsQualifiedUnit ==
    /\ Len(unit) = 2
    /\ unit[1].kind = "ExportDecl"
    /\ unit[1].decl.kind = "TsModule"
    /\ unit[2].kind = "ExportDecl"
    /\ unit[2].decl.kind = "Fn"
    /\ Len(unit[2].decl.function.params) = 1
    /\ unit[2].decl.function.params[1].type_ann.k = "TsQualifiedName"

\* the opaque type T is declared in the block of the namespace N
DeclaresQualified ==
    LET ty == unit[2].decl.function.params[1].type_ann
    IN  \E b \in 1..Len(mods) :
            /\ mods[b].path = <<ModIdent(ty.tp[1])>>
            /\ \E i \in 1..Len(mods[b].items) :
                   mods[b].items[i].kind = "Type" /\ mods[b].items[i].ident = sanitize_sym(ty.n)

\* the item of the function is of the type NMod::T in its parameter and in its
\* return type
RefersQualified(items) ==
    LET ty == unit[2].decl.function.params[1].type_ann
        path == PathTy(<<sanitize_sym(ty.tp[1] \o "Mod"), sanitize_sym(ty.n)>>)
    IN  \E i \in 1..Len(items) :
            /\ items[i].kind = "Fn"
            /\ items[i].ident = unit[2].decl.sym
            /\ items[i].inputs[1].ty = path
            /\ items[i].output = path

(* C30: a qualified reference N.T to an opaque type T declared in the
   namespace N of the same unit is still a named reference to T after ABI
   legalization, and not the dynamic value. *)
C30_QualifiedLegal ==
    (pc = "done" /\ IsQualifiedUnit) => RefersQualified(legal)

\* before ABI legalization the function does refer to NMod::T, which the
\* namespace block declares, and T is one of the collected names
C30_QualifiedCleaned ==
    (pc \in {"abify", "done"} /\ IsQualifiedUnit) =>
        /\ RefersQualified(cleaned)
        /\ DeclaresQualified
        /\ sanitize_sym(unit[2].decl.function.params[1].type_ann.n) \in pubs

-----------------------------------------------------------------------------
\* the methods, accessors and properties of a class, an interface or a type
\* literal that are not static
IsInstanceMember(o) ==
    /\ o.role = "member"
    /\ ~o.member.is_static
    /\ o.member.kind # "Constructor"

\* the first parameter of the item i is this, of the type of a reference to the
\* opaque type that items holds for the declaration of the member
ReceiverOfOwner(items, o, i) ==
    /\ HasReceiver(items[i])
    /\ \E j \in 1..Len(items) :
           /\ o[j].role = "type"
           /\ o[j].decl = o[i].decl
           /\ items[j].kind = "Type"
           /\ items[i].inputs[1].ty = Ref(Named(items[j].ident))

(* C27: in the final output, after collision resolution, BindingsCleaner and
   ABI legalization, the first parameter of the item of every instance member
   of a class, an interface or a type alias is still a reference to the owning
   opaque type, whatever the name of the owner, a name of a catalog of known
   types included. *)
C27_ReceiverKept ==
    HasLegal =>
        LET o == ItemOrigins
        IN  \A i \in 1..Len(legal) : IsInstanceMember(o[i]) => ReceiverOfOwner(legal, o, i)

\* C27 up to collision resolution
C27_ReceiverResolved ==
    HasResolved =>
        LET o == ItemOrigins
        IN  \A i \in 1..Len(resolved) : IsInstanceMember(o[i]) => ReceiverOfOwner(resolved, o, i)

\* C27 for the owners whose name is not in the catalog of the string types
C27_ReceiverOfOthers ==
    HasLegal =>
        LET o == ItemOrigins
        IN  \A i \in 1..Len(legal) :
                (IsInstanceMember(o[i]) /\ sanitize_sym(o[i].decl.sym) \notin KNOWN_STRING_TYPES) =>
                    ReceiverOfOwner(legal, o, i)

=============================================================================
